---- MODULE Spec2Model ----
(***************************************************************************)
(* Model of the wadugs cleansing worker.                                   *)
(*                                                                         *)
(*   Spec       the cleansing service (CleansingServiceImpl): one request  *)
(*              routed by ProcessCleansingMessage to DeleteSiteFiles,      *)
(*              DeleteProjectFiles or DeleteContractorFiles, every call to *)
(*              the S3 service and to the repositories being a step.       *)
(*   SpecDO     S3ServiceImpl.DeleteObjects: the launching loop, the       *)
(*              semaphore, the errgroup and one goroutine per              *)
(*              (region, bucket) partition.                                *)
(*   SpecClient S3ServiceImpl.getClientForRegion called concurrently.      *)
(*   SpecBucket S3ServiceImpl.DeleteBucket: emptying by pages and batches, *)
(*              the retries and the removal of the bucket.                 *)
(*   SpecResolver FileServiceImpl: the three entry points that walk the    *)
(*              hierarchy and derive the object keys.                      *)
(***************************************************************************)
EXTENDS Integers, Sequences, FiniteSets, TLC

VARIABLES
  \* ---- cleansing service (one request) ----
  pc,         \* program point of the request
  msg,        \* the dto.CleansingMessage being processed
  db,         \* relational rows that exist
  db0,        \* the rows that existed when the request arrived
  log,        \* call and return events of repository / S3 service methods
  pending,    \* the call in flight, or NoCall
  ret,        \* what the last call returned
  loc,        \* local variables of the running Delete*Files
  result,     \* the (*dto.CleansingResult, error) returned
  failures,   \* backend failures injected so far
  \* ---- message handler ----
  hpc,        \* program point of the handler
  hentry,     \* the handler method that was called
  hbody,      \* the body of the nsq.Message given to HandleMessage
  hmsg,       \* the dto.CleansingMessage the handler works on
  hres,       \* what processCleansingMessage returned
  hret,       \* what HandleMessage returned
  \* ---- DeleteObjects ----
  objects,    \* input: number of refs per (region, bucket) partition
  mainpc,     \* DeleteObjects' own goroutine
  mregion,    \* region whose buckets the inner range loop still has to
              \* launch, or "none"
  wpc,        \* per partition goroutine: program point
  sem,        \* len(sem): slots taken
  widx,       \* per goroutine: i of deleteBucketObjectsWithClient's loop
  wdel,       \* per goroutine: totalDeleted local of deleteBucketObjectsWithClient
  wtmp,       \* per goroutine: the value of the shared total it read
  wclient,    \* per goroutine: the client getClientForRegion returned
  totalDeleted, \* the shared total of DeleteObjects
  gerr,       \* errgroup: partition whose error was recorded first, or 0
  ctxDone,    \* the errgroup context is cancelled
  batches,    \* per partition: the batch calls issued to the backend
  doresult,   \* (int, error) DeleteObjects returned
  dofail,     \* backend failures injected so far
  \* ---- getClientForRegion ----
  regionClients, \* region -> client id stored in the cache (0: none)
  clientMutex,   \* [readers: set of callers, writer: caller or 0]
  cpc,           \* per caller: program point
  creg,          \* per caller: region asked for
  cgot,          \* per caller: client returned (0: none yet / nil)
  constructed,   \* clients built by s3.NewFromConfig, per region
  \* ---- DeleteBucket ----
  bpc,        \* program point of DeleteBucket
  bucket,     \* objects that exist in the bucket
  bk,         \* paginator and local variables of DeleteBucket and its helpers
  blog,       \* rate limiter acquisitions, backend calls and sleeps, in order
  bctxDone,   \* the caller's context is cancelled
  bresult,    \* the error DeleteBucket returned
  \* ---- file service ----
  hier,       \* the rows the repositories hold and the reads that fail
  rscope,     \* the entry point called and its argument
  rcalls      \* what each call made so far returned, and the reads it made

hVars == <<hpc, hentry, hbody, hmsg, hres, hret>>
coreVars == <<pc, msg, db, db0, log, pending, ret, loc, result, failures>>
svcVars == <<coreVars, hVars>>
doVars == <<objects, mainpc, mregion, wpc, sem, widx, wdel, wtmp, wclient,
            totalDeleted, gerr,
            ctxDone, batches, doresult, dofail>>
clVars == <<regionClients, clientMutex, cpc, creg, cgot, constructed>>
bkVars == <<bpc, bucket, bk, blog, bctxDone, bresult>>
fsVars == <<hier, rscope, rcalls>>
s3Vars == <<doVars, clVars, bkVars, fsVars>>
vars == <<svcVars, s3Vars>>

(***************************************************************************)
(* Bounds of the model.                                                    *)
(***************************************************************************)
NumProjects == 2
NumSites == 3
MaxFailures == 2

(***************************************************************************)
(* dto: message types.                                                     *)
(***************************************************************************)
CleansingTypeContractor == "contractor"
CleansingTypeProject == "project"
CleansingTypeSite == "site"

MsgTypes == {CleansingTypeContractor, CleansingTypeProject, CleansingTypeSite,
             "bogus", "", "Contractor"}

IsValidType(t) ==
  t \in {CleansingTypeContractor, CleansingTypeProject, CleansingTypeSite}

(***************************************************************************)
(* The containment hierarchy: one contractor, its projects, their sites;   *)
(* every site has document groups, documents and files.                    *)
(***************************************************************************)
Contractors == {1}
Projects == 1..NumProjects
Sites == 1..NumSites
Ids == 0..NumSites
FilesPerSite == 2

ProjectOf(s) == ((s - 1) % NumProjects) + 1

\* entity.File.Size of file k of site s, in bytes
FileSize(s, k) == IF k = 1 THEN 1000 ELSE 500

RECURSIVE SiteFilesSize(_, _)
SiteFilesSize(s, k) ==
  IF k > FilesPerSite THEN 0 ELSE FileSize(s, k) + SiteFilesSize(s, k + 1)

RECURSIVE SitesFilesSize(_)
SitesFilesSize(S) ==
  IF S = {} THEN 0
  ELSE LET s == CHOOSE x \in S : TRUE
       IN SiteFilesSize(s, 1) + SitesFilesSize(S \ {s})

NoCall == [op |-> "none", id |-> 0, x |-> 0]

\* Sorted sequence of a finite set of integers (rows come back in id order).
RECURSIVE SetToSeq(_)
SetToSeq(S) ==
  IF S = {} THEN <<>>
  ELSE LET m == CHOOSE a \in S : \A b \in S : a <= b
       IN <<m>> \o SetToSeq(S \ {m})

RECURSIVE SumSize(_)
SumSize(objs) ==
  IF objs = <<>> THEN 0 ELSE Head(objs).Size + SumSize(Tail(objs))

\* A plausible slip: the ref carries the size of the file row.
buildS3ObjectsFromFile_WithSize(s, k) ==
  <<[Key |-> <<s, k>>, Size |-> FileSize(s, k)]>>

\* One key per file row; the Size field is left at its zero value.
buildS3ObjectsFromFile(s, k) == <<[Key |-> <<s, k>>, Size |-> 0]>>

RECURSIVE FileObjects(_, _)
FileObjects(s, k) ==
  IF k > FilesPerSite THEN <<>>
  ELSE buildS3ObjectsFromFile(s, k) \o FileObjects(s, k + 1)

\* The walk group -> document -> file of one site.
SiteObjects(d, s) ==
  IF s \in d.groups /\ s \in d.docs /\ s \in d.files
  THEN FileObjects(s, 1) ELSE <<>>

RECURSIVE SitesObjects(_, _)
SitesObjects(d, ss) ==
  IF ss = <<>> THEN <<>>
  ELSE SiteObjects(d, Head(ss)) \o SitesObjects(d, Tail(ss))

SitesOfProject(d, p) == SetToSeq({s \in d.sites : ProjectOf(s) = p})
ProjectsOfContractor(d, c) ==
  IF c \in Contractors THEN SetToSeq(d.projects) ELSE <<>>

RECURSIVE ProjectsObjects(_, _)
ProjectsObjects(d, ps) ==
  IF ps = <<>> THEN <<>>
  ELSE SitesObjects(d, SitesOfProject(d, Head(ps)))
         \o ProjectsObjects(d, Tail(ps))

GetSiteFiles(d, s) == SiteObjects(d, s)
GetProjectFiles(d, p) == SitesObjects(d, SitesOfProject(d, p))
GetContractorFiles(d, c) == ProjectsObjects(d, ProjectsOfContractor(d, c))

\* calculateSizeForDeletedFiles: the sizes of the first deletedCount refs.
RECURSIVE calculateSizeForDeletedFiles(_, _)
calculateSizeForDeletedFiles(s3Objects, deletedCount) ==
  IF deletedCount <= 0 \/ s3Objects = <<>> THEN 0
  ELSE Head(s3Objects).Size
         + calculateSizeForDeletedFiles(Tail(s3Objects), deletedCount - 1)

(***************************************************************************)
(* The backends behind the repository and S3 service interfaces, as the    *)
(* cleansing service sees them: every call returns, with an error or not.  *)
(***************************************************************************)
OpListSiteFiles == "S3.ListSiteFiles"
OpListProjectFiles == "S3.ListProjectFiles"
OpListContractorFiles == "S3.ListContractorFiles"
OpDeleteObjects == "S3.DeleteObjects"
OpSiteGetByID == "Site.GetByID"
OpSiteGetByProjectID == "Site.GetByProjectID"
OpProjectGetByContractorID == "Project.GetByContractorID"
OpUpdateProjectUsage == "Project.UpdateProjectUsage"
OpFileHardDeleteBySiteID == "File.HardDeleteBySiteID"
OpDocumentHardDeleteBySiteID == "Document.HardDeleteBySiteID"
OpDocumentGroupHardDeleteBySiteID == "DocumentGroup.HardDeleteBySiteID"
OpSiteHardDelete == "Site.HardDelete"
OpSiteHardDeleteByProjectID == "Site.HardDeleteByProjectID"
OpProjectHardDelete == "Project.HardDelete"
OpProjectHardDeleteByContractorID == "Project.HardDeleteByContractorID"
OpContractorDelete == "Contractor.Delete"
OpContractorGetByID == "Contractor.GetByID"
OpDeleteBucket == "S3.DeleteBucket"

\* entity.Contractor.AwsBucketName: buckets are named by a number, 0 is the
\* empty name (contractors with an even id have no bucket configured)
AwsBucketName(c) == IF c % 2 = 0 THEN 0 ELSE c

\* The mutating repository calls that remove rows.
MutatingOps ==
  {OpFileHardDeleteBySiteID, OpDocumentHardDeleteBySiteID,
   OpDocumentGroupHardDeleteBySiteID, OpSiteHardDelete,
   OpSiteHardDeleteByProjectID, OpProjectHardDelete,
   OpProjectHardDeleteByContractorID, OpContractorDelete}

ListOps == {OpListSiteFiles, OpListProjectFiles, OpListContractorFiles}

\* A plausible slip: a read of a missing row returns a zero row and no error
\* (gorm's Find).
RecordNotFound_Never(c, d) == FALSE

\* A read of a row that does not exist fails (gorm's First: record not found).
RecordNotFound(c, d) ==
  CASE c.op = OpSiteGetByID -> c.id \notin d.sites
    [] c.op = OpContractorGetByID -> c.id \notin d.contractors
    [] c.op = OpListSiteFiles ->
         c.id \notin d.sites \/ ProjectOf(c.id) \notin d.projects
    [] c.op = OpListProjectFiles -> c.id \notin d.projects
    [] OTHER -> FALSE

\* The rows left by a call that succeeds.
RowsAfter(c, d) ==
  CASE c.op = OpFileHardDeleteBySiteID -> [d EXCEPT !.files = @ \ {c.id}]
    [] c.op = OpDocumentHardDeleteBySiteID -> [d EXCEPT !.docs = @ \ {c.id}]
    [] c.op = OpDocumentGroupHardDeleteBySiteID ->
         [d EXCEPT !.groups = @ \ {c.id}]
    [] c.op = OpSiteHardDelete -> [d EXCEPT !.sites = @ \ {c.id}]
    [] c.op = OpSiteHardDeleteByProjectID ->
         [d EXCEPT !.sites = {s \in @ : ProjectOf(s) # c.id}]
    [] c.op = OpProjectHardDelete -> [d EXCEPT !.projects = @ \ {c.id}]
    [] c.op = OpProjectHardDeleteByContractorID ->
         [d EXCEPT !.projects = IF c.id \in Contractors THEN {} ELSE @]
    [] c.op = OpContractorDelete -> [d EXCEPT !.contractors = @ \ {c.id}]
    \* UpdateProjectUsage sets updated_at only: file_size_usage keeps its value
    [] c.op = OpUpdateProjectUsage -> [d EXCEPT !.usage = @]
    [] OTHER -> d

\* The rows or refs a read that succeeds returns.
ListOf(c, d) ==
  CASE c.op = OpListSiteFiles -> GetSiteFiles(d, c.id)
    [] c.op = OpListProjectFiles -> GetProjectFiles(d, c.id)
    [] c.op = OpListContractorFiles -> GetContractorFiles(d, c.id)
    [] c.op = OpSiteGetByProjectID -> SitesOfProject(d, c.id)
    [] c.op = OpProjectGetByContractorID -> ProjectsOfContractor(d, c.id)
    [] OTHER -> <<>>

\* The counts DeleteObjects can return for x refs: everything, or fewer when
\* the backend reports keys as failed; with an error, fewer than everything.
DeleteCounts(x, e) ==
  IF x = 0 THEN {0}
  ELSE {n \in {0, 1, x - 1, x} : n >= 0 /\ (e => n < x)}

\* the sites a listing walks, in the order of the walk
RECURSIVE ProjectsSites(_, _)
ProjectsSites(d, ps) ==
  IF ps = <<>> THEN <<>>
  ELSE SitesOfProject(d, Head(ps)) \o ProjectsSites(d, Tail(ps))

WalkedSites(c, d) ==
  CASE c.op = OpListSiteFiles -> <<c.id>>
    [] c.op = OpListProjectFiles -> SitesOfProject(d, c.id)
    [] OTHER -> ProjectsSites(d, ProjectsOfContractor(d, c.id))

\* The lists a listing returns, with no error, when a read below one site
\* fails and the file service skips that branch with `continue`: the refs
\* of the other sites.
SkippedBranchLists(c, d) ==
  LET sites == WalkedSites(c, d)
  IN {SitesObjects(d, SelectSeq(sites, LAMBDA t : t # s)) :
        s \in {sites[i] : i \in {j \in 1..Len(sites) :
                                   SiteObjects(d, sites[j]) # <<>>}}}

\* What a call can return: [err, n, list, db].
Outcomes(c, d) ==
  IF RecordNotFound(c, d)
  THEN {[err |-> TRUE, n |-> 0, list |-> <<>>, db |-> d, injected |-> FALSE]}
  ELSE IF c.op = OpDeleteObjects
  THEN {[err |-> e, n |-> n, list |-> <<>>, db |-> d, injected |-> e] :
          <<e, n>> \in {en \in BOOLEAN \X (0..c.x) :
                          /\ en[2] \in DeleteCounts(c.x, en[1])
                          /\ (c.x = 0 => ~en[1])}}
  ELSE {[err |-> FALSE,
         n |-> IF c.op = OpSiteGetByID THEN ProjectOf(c.id)
               ELSE IF c.op = OpContractorGetByID THEN AwsBucketName(c.id)
               ELSE 0,
         list |-> ListOf(c, d), db |-> RowsAfter(c, d), injected |-> FALSE],
        [err |-> TRUE, n |-> 0, list |-> <<>>, db |-> d, injected |-> TRUE]}
       \cup (IF c.op \in ListOps
             THEN {[err |-> FALSE, n |-> 0, list |-> l, db |-> d,
                    injected |-> TRUE] : l \in SkippedBranchLists(c, d)}
             ELSE {})

BackendReturn ==
  /\ pending # NoCall
  /\ \E o \in Outcomes(pending, db) :
       /\ o.injected => failures < MaxFailures
       /\ failures' = IF o.injected THEN failures + 1 ELSE failures
       /\ ret' = [err |-> o.err, n |-> o.n, list |-> o.list]
       /\ db' = o.db
       /\ log' = Append(log, [ev |-> "ret", op |-> pending.op,
                              id |-> pending.id, x |-> o.n, err |-> o.err])
  /\ pending' = NoCall
  /\ UNCHANGED <<pc, msg, db0, loc, result>>
  /\ UNCHANGED <<s3Vars, hVars>>

(***************************************************************************)
(* CleansingServiceImpl.                                                   *)
(***************************************************************************)
NoResult ==
  [Type |-> "", ID |-> 0, Success |-> FALSE, FilesDeleted |-> 0,
   Error |-> "", Err |-> FALSE]

NoLoc ==
  [ProjectId |-> 0, s3Objects |-> <<>>, deletedCount |-> 0, totalSize |-> 0,
   sites |-> <<>>, projects |-> <<>>, i |-> 0, j |-> 0, err |-> FALSE]

\* A synchronous call of a repository or S3 service method.
Call(op, id, x, next) ==
  /\ pending' = [op |-> op, id |-> id, x |-> x]
  /\ log' = Append(log, [ev |-> "call", op |-> op, id |-> id, x |-> x,
                         err |-> FALSE])
  /\ pc' = next
  /\ UNCHANGED <<msg, db, db0, ret, result, failures>>

\* A plausible slip: return result, nil on every path.
Finish_ErrDropped(success, filesDeleted, errString, err) ==
  /\ result' = [Type |-> msg.Type, ID |-> msg.ID, Success |-> success,
                FilesDeleted |-> filesDeleted, Error |-> errString,
                Err |-> FALSE]
  /\ pc' = "done"
  /\ UNCHANGED <<msg, db, db0, log, pending, ret, failures>>

\* return result, err / return result, nil: the outcome built so far and the
\* error value returned next to it (Err: it is non-nil)
Finish(success, filesDeleted, errString, err) ==
  /\ result' = [Type |-> msg.Type, ID |-> msg.ID, Success |-> success,
                FilesDeleted |-> filesDeleted, Error |-> errString,
                Err |-> err]
  /\ pc' = "done"
  /\ UNCHANGED <<msg, db, db0, log, pending, ret, failures>>

\* The switch of ProcessCleansingMessage: the program point it routes to, or
\* "done" for its default branch.
Route(t) ==
  IF t = CleansingTypeContractor THEN "contractor_start"
  ELSE IF t = CleansingTypeProject THEN "project_start"
  ELSE IF t = CleansingTypeSite THEN "site_start"
  ELSE "done"

\* The service is invoked by a caller of its own (no handler running), or by
\* the handler's processCleansingMessage with the message it validated.
Invoked(m) == hpc = "idle" \/ (hpc = "invoke" /\ m = hmsg)

\* A plausible slip: no validation, and anything that is not a contractor or a
\* project is handled as a site.
ProcessCleansingMessage_NoValidation(m) ==
  /\ pc = "idle"
  /\ Invoked(m)
  /\ msg' = m
  /\ pc' = IF m.Type = CleansingTypeContractor THEN "contractor_start"
           ELSE IF m.Type = CleansingTypeProject THEN "project_start"
           ELSE "site_start"
  /\ UNCHANGED <<db, db0, log, pending, ret, loc, failures, result>>
  /\ UNCHANGED <<s3Vars, hVars>>

ProcessCleansingMessage(m) ==
  /\ pc = "idle"
  /\ Invoked(m)
  /\ msg' = m
  /\ IF ~IsValidType(m.Type)
     THEN /\ result' = [Type |-> m.Type, ID |-> m.ID, Success |-> FALSE,
                        FilesDeleted |-> 0,
                        Error |-> "invalid cleansing type", Err |-> TRUE]
          /\ pc' = "done"
     ELSE /\ pc' = Route(m.Type)
          /\ result' = IF Route(m.Type) = "done"
                       THEN [Type |-> m.Type, ID |-> m.ID, Success |-> FALSE,
                             FilesDeleted |-> 0,
                             Error |-> "unsupported cleansing type",
                             Err |-> TRUE]
                       ELSE result
  /\ UNCHANGED <<db, db0, log, pending, ret, loc, failures>>
  /\ UNCHANGED <<s3Vars, hVars>>

(***************************************************************************)
(* DeleteSiteFiles.                                                        *)
(***************************************************************************)
DeleteSiteFiles_GetByID ==
  /\ pc = "site_start"
  /\ Call(OpSiteGetByID, msg.ID, 0, "site_got")
  /\ UNCHANGED loc
  /\ UNCHANGED <<s3Vars, hVars>>

DeleteSiteFiles_ListSiteFiles ==
  /\ pc = "site_got" /\ pending = NoCall
  /\ IF ret.err
     THEN /\ Finish(FALSE, 0, "failed to get site information",
                   ret.err)
          /\ UNCHANGED loc
     ELSE /\ loc' = [loc EXCEPT !.ProjectId = ret.n]
          /\ Call(OpListSiteFiles, msg.ID, 0, "site_listed")
  /\ UNCHANGED <<s3Vars, hVars>>

DeleteSiteFiles_DeleteObjects ==
  /\ pc = "site_listed" /\ pending = NoCall
  /\ IF ret.err
     THEN /\ Finish(FALSE, 0, "failed to list site files",
                   ret.err)
          /\ UNCHANGED loc
     ELSE /\ loc' = [loc EXCEPT !.s3Objects = ret.list]
          /\ Call(OpDeleteObjects, msg.ID, Len(ret.list), "site_deleted")
  /\ UNCHANGED <<s3Vars, hVars>>

\* A plausible slip: the error of DeleteObjects is only logged and the
\* request goes on.
DeleteSiteFiles_UpdateProjectUsage_IgnoreError ==
  /\ pc = "site_deleted" /\ pending = NoCall
  /\ loc' = [loc EXCEPT !.deletedCount = ret.n,
                        !.totalSize = SumSize(loc.s3Objects)]
  /\ Call(OpUpdateProjectUsage, loc.ProjectId,
          0 - SumSize(loc.s3Objects), "site_usage")
  /\ UNCHANGED <<s3Vars, hVars>>

DeleteSiteFiles_UpdateProjectUsage ==
  /\ pc = "site_deleted" /\ pending = NoCall
  /\ IF ret.err
     THEN /\ Finish(FALSE, ret.n, "failed to delete site files", ret.err)
          /\ loc' = [loc EXCEPT !.deletedCount = ret.n]
     ELSE /\ loc' = [loc EXCEPT !.deletedCount = ret.n,
                                !.totalSize = SumSize(loc.s3Objects)]
          /\ Call(OpUpdateProjectUsage, loc.ProjectId,
                  0 - SumSize(loc.s3Objects), "site_usage")
  /\ UNCHANGED <<s3Vars, hVars>>

\* A plausible slip: the documents are deleted where the files should be.
DeleteSiteFiles_HardDeleteFiles_DocumentsFirst ==
  /\ pc = "site_usage" /\ pending = NoCall
  /\ Call(OpDocumentHardDeleteBySiteID, msg.ID, 0, "site_files")
  /\ UNCHANGED loc
  /\ UNCHANGED <<s3Vars, hVars>>

DeleteSiteFiles_HardDeleteFiles ==
  /\ pc = "site_usage" /\ pending = NoCall
  /\ Call(OpFileHardDeleteBySiteID, msg.ID, 0, "site_files")
  /\ UNCHANGED loc
  /\ UNCHANGED <<s3Vars, hVars>>

DeleteSiteFiles_HardDeleteDocuments ==
  /\ pc = "site_files" /\ pending = NoCall
  /\ IF ret.err
     THEN Finish(FALSE, loc.deletedCount,
                 "failed to delete file records", ret.err)
     ELSE Call(OpDocumentHardDeleteBySiteID, msg.ID, 0, "site_docs")
  /\ UNCHANGED loc
  /\ UNCHANGED <<s3Vars, hVars>>

DeleteSiteFiles_HardDeleteDocumentGroups ==
  /\ pc = "site_docs" /\ pending = NoCall
  /\ IF ret.err
     THEN Finish(FALSE, loc.deletedCount,
                 "failed to delete document records", ret.err)
     ELSE Call(OpDocumentGroupHardDeleteBySiteID, msg.ID, 0, "site_groups")
  /\ UNCHANGED loc
  /\ UNCHANGED <<s3Vars, hVars>>

DeleteSiteFiles_HardDelete ==
  /\ pc = "site_groups" /\ pending = NoCall
  /\ IF ret.err
     THEN Finish(FALSE, loc.deletedCount,
                 "failed to delete document group records", ret.err)
     ELSE Call(OpSiteHardDelete, msg.ID, 0, "site_row")
  /\ UNCHANGED loc
  /\ UNCHANGED <<s3Vars, hVars>>

DeleteSiteFiles_Return ==
  /\ pc = "site_row" /\ pending = NoCall
  /\ IF ret.err
     THEN Finish(FALSE, loc.deletedCount,
                 "failed to delete site record", ret.err)
     ELSE Finish(TRUE, loc.deletedCount, "", FALSE)
  /\ UNCHANGED loc
  /\ UNCHANGED <<s3Vars, hVars>>

DeleteSiteFiles ==
  \/ DeleteSiteFiles_GetByID
  \/ DeleteSiteFiles_ListSiteFiles
  \/ DeleteSiteFiles_DeleteObjects
  \/ DeleteSiteFiles_UpdateProjectUsage
  \/ DeleteSiteFiles_HardDeleteFiles
  \/ DeleteSiteFiles_HardDeleteDocuments
  \/ DeleteSiteFiles_HardDeleteDocumentGroups
  \/ DeleteSiteFiles_HardDelete
  \/ DeleteSiteFiles_Return


(***************************************************************************)
(* DeleteProjectFiles.                                                     *)
(***************************************************************************)
DeleteProjectFiles_ListProjectFiles ==
  /\ pc = "project_start"
  /\ Call(OpListProjectFiles, msg.ID, 0, "project_listed")
  /\ UNCHANGED loc
  /\ UNCHANGED <<s3Vars, hVars>>

DeleteProjectFiles_DeleteObjects ==
  /\ pc = "project_listed" /\ pending = NoCall
  /\ IF ret.err
     THEN /\ Finish(FALSE, 0, "failed to list project files",
                   ret.err)
          /\ UNCHANGED loc
     ELSE /\ loc' = [loc EXCEPT !.s3Objects = ret.list]
          /\ Call(OpDeleteObjects, msg.ID, Len(ret.list), "project_deleted")
  /\ UNCHANGED <<s3Vars, hVars>>

\* After DeleteObjects: on error the usage of what was deleted is still
\* updated (when deletedCount > 0) and the request fails; else the usage of
\* everything is updated.
DeleteProjectFiles_UpdateProjectUsage ==
  /\ pc = "project_deleted" /\ pending = NoCall
  /\ loc' = [loc EXCEPT !.deletedCount = ret.n,
                        !.err = ret.err,
                        !.totalSize = IF ret.err THEN 0
                                      ELSE SumSize(loc.s3Objects)]
  /\ IF ret.err
     THEN IF ret.n > 0
          THEN Call(OpUpdateProjectUsage, msg.ID,
                    0 - calculateSizeForDeletedFiles(loc.s3Objects, ret.n),
                    "project_partial_usage")
          ELSE Finish(FALSE, ret.n, "failed to delete project files", ret.err)
     ELSE Call(OpUpdateProjectUsage, msg.ID, 0 - SumSize(loc.s3Objects),
               "project_usage")
  /\ UNCHANGED <<s3Vars, hVars>>

\* A plausible slip: the failure path returns without the count.
DeleteProjectFiles_PartialReturn_NoCount ==
  /\ pc = "project_partial_usage" /\ pending = NoCall
  /\ Finish(FALSE, 0, "failed to delete project files", loc.err)
  /\ UNCHANGED loc
  /\ UNCHANGED <<s3Vars, hVars>>

DeleteProjectFiles_PartialReturn ==
  /\ pc = "project_partial_usage" /\ pending = NoCall
  /\ Finish(FALSE, loc.deletedCount, "failed to delete project files", loc.err)
  /\ UNCHANGED loc
  /\ UNCHANGED <<s3Vars, hVars>>

\* A plausible slip: a failed usage update ends the request.
DeleteProjectFiles_GetByProjectID_UsageFatal ==
  /\ pc = "project_usage" /\ pending = NoCall
  /\ IF ret.err
     THEN Finish(FALSE, loc.deletedCount,
                 "failed to update project usage", ret.err)
     ELSE Call(OpSiteGetByProjectID, msg.ID, 0, "project_sites")
  /\ UNCHANGED loc
  /\ UNCHANGED <<s3Vars, hVars>>

DeleteProjectFiles_GetByProjectID ==
  /\ pc = "project_usage" /\ pending = NoCall
  /\ Call(OpSiteGetByProjectID, msg.ID, 0, "project_sites")
  /\ UNCHANGED loc
  /\ UNCHANGED <<s3Vars, hVars>>

\* for _, site := range sites: the first site, or past the loop.
DeleteProjectFiles_Range ==
  /\ pc = "project_sites" /\ pending = NoCall
  /\ IF ret.err
     THEN /\ Finish(FALSE, loc.deletedCount,
                    "failed to get sites for project", ret.err)
          /\ UNCHANGED loc
     ELSE /\ loc' = [loc EXCEPT !.sites = ret.list, !.i = 1]
          /\ IF ret.list = <<>>
             THEN Call(OpSiteHardDeleteByProjectID, msg.ID, 0,
                       "project_sites_deleted")
             ELSE Call(OpFileHardDeleteBySiteID, ret.list[1], 0,
                       "project_loop_files")
  /\ UNCHANGED <<s3Vars, hVars>>

DeleteProjectFiles_HardDeleteDocuments ==
  /\ pc = "project_loop_files" /\ pending = NoCall
  /\ Call(OpDocumentHardDeleteBySiteID, loc.sites[loc.i], 0,
          "project_loop_docs")
  /\ UNCHANGED loc
  /\ UNCHANGED <<s3Vars, hVars>>

DeleteProjectFiles_HardDeleteDocumentGroups ==
  /\ pc = "project_loop_docs" /\ pending = NoCall
  /\ Call(OpDocumentGroupHardDeleteBySiteID, loc.sites[loc.i], 0,
          "project_loop_groups")
  /\ UNCHANGED loc
  /\ UNCHANGED <<s3Vars, hVars>>

\* End of one iteration: the next site, or the sites-by-project delete.
DeleteProjectFiles_NextSite ==
  /\ pc = "project_loop_groups" /\ pending = NoCall
  /\ IF loc.i < Len(loc.sites)
     THEN /\ loc' = [loc EXCEPT !.i = @ + 1]
          /\ Call(OpFileHardDeleteBySiteID, loc.sites[loc.i + 1], 0,
                  "project_loop_files")
     ELSE /\ loc' = loc
          /\ Call(OpSiteHardDeleteByProjectID, msg.ID, 0,
                  "project_sites_deleted")
  /\ UNCHANGED <<s3Vars, hVars>>

DeleteProjectFiles_HardDelete ==
  /\ pc = "project_sites_deleted" /\ pending = NoCall
  /\ IF ret.err
     THEN Finish(FALSE, loc.deletedCount,
                 "failed to delete site records", ret.err)
     ELSE Call(OpProjectHardDelete, msg.ID, 0, "project_row")
  /\ UNCHANGED loc
  /\ UNCHANGED <<s3Vars, hVars>>

DeleteProjectFiles_Return ==
  /\ pc = "project_row" /\ pending = NoCall
  /\ IF ret.err
     THEN Finish(FALSE, loc.deletedCount,
                 "failed to delete project record", ret.err)
     ELSE Finish(TRUE, loc.deletedCount, "", FALSE)
  /\ UNCHANGED loc
  /\ UNCHANGED <<s3Vars, hVars>>

DeleteProjectFiles ==
  \/ DeleteProjectFiles_ListProjectFiles
  \/ DeleteProjectFiles_DeleteObjects
  \/ DeleteProjectFiles_UpdateProjectUsage
  \/ DeleteProjectFiles_PartialReturn
  \/ DeleteProjectFiles_GetByProjectID
  \/ DeleteProjectFiles_Range
  \/ DeleteProjectFiles_HardDeleteDocuments
  \/ DeleteProjectFiles_HardDeleteDocumentGroups
  \/ DeleteProjectFiles_NextSite
  \/ DeleteProjectFiles_HardDelete
  \/ DeleteProjectFiles_Return

(***************************************************************************)
(* DeleteContractorFiles (the cascade over projects and sites).            *)
(***************************************************************************)
DeleteContractorFiles_ListContractorFiles ==
  /\ pc = "contractor_start"
  /\ Call(OpListContractorFiles, msg.ID, 0, "contractor_listed")
  /\ UNCHANGED loc
  /\ UNCHANGED <<s3Vars, hVars>>

DeleteContractorFiles_DeleteObjects ==
  /\ pc = "contractor_listed" /\ pending = NoCall
  /\ IF ret.err
     THEN /\ Finish(FALSE, 0, "failed to list contractor files",
                   ret.err)
          /\ UNCHANGED loc
     ELSE /\ loc' = [loc EXCEPT !.s3Objects = ret.list]
          /\ Call(OpDeleteObjects, msg.ID, Len(ret.list), "contractor_deleted")
  /\ UNCHANGED <<s3Vars, hVars>>

DeleteContractorFiles_GetByContractorID ==
  /\ pc = "contractor_deleted" /\ pending = NoCall
  /\ loc' = [loc EXCEPT !.deletedCount = ret.n]
  /\ IF ret.err
     THEN Finish(FALSE, ret.n, "failed to delete contractor files", ret.err)
     ELSE Call(OpProjectGetByContractorID, msg.ID, 0, "contractor_projects")
  /\ UNCHANGED <<s3Vars, hVars>>

\* The top of "for _, project := range projects" for project number j: its
\* sites are read, or, past the last project, the projects are deleted.
ContractorProject(j, projects) ==
  IF j <= Len(projects)
  THEN Call(OpSiteGetByProjectID, projects[j], 0, "contractor_sites")
  ELSE Call(OpProjectHardDeleteByContractorID, msg.ID, 0,
            "contractor_projects_deleted")

DeleteContractorFiles_Range ==
  /\ pc = "contractor_projects" /\ pending = NoCall
  /\ IF ret.err
     THEN /\ Finish(FALSE, loc.deletedCount,
                    "failed to get projects for contractor", ret.err)
          /\ UNCHANGED loc
     ELSE /\ loc' = [loc EXCEPT !.projects = ret.list, !.j = 1]
          /\ ContractorProject(1, ret.list)
  /\ UNCHANGED <<s3Vars, hVars>>

\* After GetByProjectID: on error `continue` (the sites-by-project delete of
\* this project is skipped too); else the first site, or no site at all.
DeleteContractorFiles_RangeSites ==
  /\ pc = "contractor_sites" /\ pending = NoCall
  /\ IF ret.err
     THEN /\ loc' = [loc EXCEPT !.j = @ + 1]
          /\ ContractorProject(loc.j + 1, loc.projects)
     ELSE /\ loc' = [loc EXCEPT !.sites = ret.list, !.i = 1]
          /\ IF ret.list = <<>>
             THEN Call(OpSiteHardDeleteByProjectID, loc.projects[loc.j], 0,
                       "contractor_sites_deleted")
             ELSE Call(OpFileHardDeleteBySiteID, ret.list[1], 0,
                       "contractor_loop_files")
  /\ UNCHANGED <<s3Vars, hVars>>

DeleteContractorFiles_HardDeleteDocuments ==
  /\ pc = "contractor_loop_files" /\ pending = NoCall
  /\ Call(OpDocumentHardDeleteBySiteID, loc.sites[loc.i], 0,
          "contractor_loop_docs")
  /\ UNCHANGED loc
  /\ UNCHANGED <<s3Vars, hVars>>

DeleteContractorFiles_HardDeleteDocumentGroups ==
  /\ pc = "contractor_loop_docs" /\ pending = NoCall
  /\ Call(OpDocumentGroupHardDeleteBySiteID, loc.sites[loc.i], 0,
          "contractor_loop_groups")
  /\ UNCHANGED loc
  /\ UNCHANGED <<s3Vars, hVars>>

\* A plausible slip: the loop over the sites ends after the first site.
DeleteContractorFiles_NextSite_FirstOnly ==
  /\ pc = "contractor_loop_groups" /\ pending = NoCall
  /\ loc' = loc
  /\ Call(OpSiteHardDeleteByProjectID, loc.projects[loc.j], 0,
          "contractor_sites_deleted")
  /\ UNCHANGED <<s3Vars, hVars>>

DeleteContractorFiles_NextSite ==
  /\ pc = "contractor_loop_groups" /\ pending = NoCall
  /\ IF loc.i < Len(loc.sites)
     THEN /\ loc' = [loc EXCEPT !.i = @ + 1]
          /\ Call(OpFileHardDeleteBySiteID, loc.sites[loc.i + 1], 0,
                  "contractor_loop_files")
     ELSE /\ loc' = loc
          /\ Call(OpSiteHardDeleteByProjectID, loc.projects[loc.j], 0,
                  "contractor_sites_deleted")
  /\ UNCHANGED <<s3Vars, hVars>>

DeleteContractorFiles_NextProject ==
  /\ pc = "contractor_sites_deleted" /\ pending = NoCall
  /\ loc' = [loc EXCEPT !.j = @ + 1]
  /\ ContractorProject(loc.j + 1, loc.projects)
  /\ UNCHANGED <<s3Vars, hVars>>

DeleteContractorFiles_Delete ==
  /\ pc = "contractor_projects_deleted" /\ pending = NoCall
  /\ IF ret.err
     THEN Finish(FALSE, loc.deletedCount,
                 "failed to delete project records", ret.err)
     ELSE Call(OpContractorDelete, msg.ID, 0, "contractor_row")
  /\ UNCHANGED loc
  /\ UNCHANGED <<s3Vars, hVars>>

\* A plausible slip: the contractor row delete is tolerated like the
\* descendant deletes before it.
DeleteContractorFiles_Return_Tolerant ==
  /\ pc = "contractor_row" /\ pending = NoCall
  /\ Finish(TRUE, loc.deletedCount, "", FALSE)
  /\ UNCHANGED loc
  /\ UNCHANGED <<s3Vars, hVars>>

DeleteContractorFiles_Return ==
  /\ pc = "contractor_row" /\ pending = NoCall
  /\ IF ret.err
     THEN Finish(FALSE, loc.deletedCount,
                 "failed to delete contractor record", ret.err)
     ELSE Finish(TRUE, loc.deletedCount, "", FALSE)
  /\ UNCHANGED loc
  /\ UNCHANGED <<s3Vars, hVars>>

DeleteContractorFiles ==
  \/ DeleteContractorFiles_ListContractorFiles
  \/ DeleteContractorFiles_DeleteObjects
  \/ DeleteContractorFiles_GetByContractorID
  \/ DeleteContractorFiles_Range
  \/ DeleteContractorFiles_RangeSites
  \/ DeleteContractorFiles_HardDeleteDocuments
  \/ DeleteContractorFiles_HardDeleteDocumentGroups
  \/ DeleteContractorFiles_NextSite
  \/ DeleteContractorFiles_NextProject
  \/ DeleteContractorFiles_Delete
  \/ DeleteContractorFiles_Return

(***************************************************************************)
(* MessageHandler.                                                         *)
(***************************************************************************)
\* A message body: not JSON at all, or a JSON object that may lack the
\* "type" and the "id" member.
MalformedBody == [json |-> FALSE, has |-> {}, Type |-> "", ID |-> 0]

Bodies ==
  {MalformedBody} \cup
  {[json |-> TRUE, has |-> h, Type |-> t, ID |-> i] :
     h \in SUBSET {"type", "id"}, t \in MsgTypes, i \in {1}}

\* json.Unmarshal into a dto.CleansingMessage: an error for a malformed body;
\* a member that is absent leaves the zero value
Unmarshal(body) ==
  [err |-> ~body.json,
   msg |-> [Type |-> IF "type" \in body.has THEN body.Type ELSE "",
            ID |-> IF "id" \in body.has THEN body.ID ELSE 0]]

NoHres == [returned |-> FALSE, nil |-> TRUE, err |-> FALSE]
NoHret == [returned |-> FALSE, err |-> FALSE]

\* A plausible slip: a bad message is reported as retryable.
HandleMessage_RetryInvalid(body) ==
  /\ hpc = "idle" /\ pc = "idle"
  /\ hentry' = "HandleMessage"
  /\ hbody' = body
  /\ LET u == Unmarshal(body) IN
     IF u.err \/ ~IsValidType(u.msg.Type)
     THEN /\ hret' = [returned |-> TRUE, err |-> TRUE]
          /\ hpc' = "done"
          /\ UNCHANGED hmsg
     ELSE /\ hmsg' = u.msg
          /\ hpc' = "process"
          /\ UNCHANGED hret
  /\ UNCHANGED <<hres, coreVars, s3Vars>>

\* HandleMessage up to its call of processCleansingMessage: a body that does
\* not parse, or a type that is not valid, goes to handleError(.., false),
\* which returns nil
HandleMessage(body) ==
  /\ hpc = "idle" /\ pc = "idle"
  /\ hentry' = "HandleMessage"
  /\ hbody' = body
  /\ LET u == Unmarshal(body) IN
     IF u.err \/ ~IsValidType(u.msg.Type)
     THEN /\ hret' = [returned |-> TRUE, err |-> FALSE]
          /\ hpc' = "done"
          /\ UNCHANGED hmsg
     ELSE /\ hmsg' = u.msg
          /\ hpc' = "process"
          /\ UNCHANGED hret
  /\ UNCHANGED <<hres, coreVars, s3Vars>>

\* processCleansingMessage called by a caller of its own
processCleansingMessage_Enter(m) ==
  /\ hpc = "idle" /\ pc = "idle"
  /\ hentry' = "processCleansingMessage"
  /\ hmsg' = m
  /\ hpc' = "process"
  /\ UNCHANGED <<hbody, hres, hret, coreVars, s3Vars>>

\* processCleansingMessage: the type is validated, then the service is called
processCleansingMessage_Validate ==
  /\ hpc = "process"
  /\ IF ~IsValidType(hmsg.Type)
     THEN /\ hres' = [returned |-> TRUE, nil |-> TRUE, err |-> TRUE]
          /\ hpc' = "processed"
     ELSE /\ hpc' = "invoke"
          /\ UNCHANGED hres
  /\ UNCHANGED <<hentry, hbody, hmsg, hret, coreVars, s3Vars>>

\* A plausible slip: the service's error is dropped.
processCleansingMessage_Return_NoError ==
  /\ hpc = "invoke" /\ pc = "done"
  /\ hres' = [returned |-> TRUE, nil |-> FALSE, err |-> FALSE]
  /\ hpc' = "processed"
  /\ UNCHANGED <<hentry, hbody, hmsg, hret, coreVars, s3Vars>>

\* processCleansingMessage after the service returned: return result, err
processCleansingMessage_Return ==
  /\ hpc = "invoke" /\ pc = "done"
  /\ hres' = [returned |-> TRUE, nil |-> FALSE, err |-> result.Err]
  /\ hpc' = "processed"
  /\ UNCHANGED <<hentry, hbody, hmsg, hret, coreVars, s3Vars>>

\* HandleMessage after processCleansingMessage: handleError(.., true) returns
\* the error, else nil
HandleMessage_Return ==
  /\ hpc = "processed" /\ hentry = "HandleMessage"
  /\ hret' = [returned |-> TRUE, err |-> hres.err]
  /\ hpc' = "done"
  /\ UNCHANGED <<hentry, hbody, hmsg, hres, coreVars, s3Vars>>

MessageHandler ==
  \/ \E body \in Bodies : HandleMessage(body)
  \/ \E t \in MsgTypes, id \in {1} :
       processCleansingMessage_Enter([Type |-> t, ID |-> id])
  \/ processCleansingMessage_Validate
  \/ processCleansingMessage_Return
  \/ HandleMessage_Return

(***************************************************************************)
(* Initial states and the specification of the cleansing service.          *)
(***************************************************************************)
\* Every site has one document group with its documents and files; a
\* project's file_size_usage is the size of the files stored under it.
FullDb ==
  [contractors |-> Contractors, projects |-> Projects, sites |-> Sites,
   groups |-> Sites, docs |-> Sites, files |-> Sites,
   usage |-> [p \in Projects |->
                SitesFilesSize({s \in Sites : ProjectOf(s) = p})]]

\* The stores a request can find: every site has its document group and
\* documents, and files in every site, in no site, or in the first site only.
InitialDbs ==
  {[FullDb EXCEPT !.files = f,
                  !.usage = [p \in Projects |->
                               SitesFilesSize({s \in f : ProjectOf(s) = p})]] :
     f \in {Sites, {}, {1}}}

InitSvc ==
  /\ pc = "idle"
  /\ msg = [Type |-> "", ID |-> 0]
  /\ db \in InitialDbs
  /\ db0 = db
  /\ log = <<>>
  /\ pending = NoCall
  /\ ret = [err |-> FALSE, n |-> 0, list |-> <<>>]
  /\ loc = NoLoc
  /\ result = NoResult
  /\ failures = 0
  /\ hpc = "idle"
  /\ hentry = ""
  /\ hbody = MalformedBody
  /\ hmsg = [Type |-> "", ID |-> 0]
  /\ hres = NoHres
  /\ hret = NoHret

InitDOIdle ==
  /\ objects = <<>>
  /\ mainpc = "off"
  /\ mregion = "none"
  /\ wpc = <<>>
  /\ sem = 0
  /\ widx = <<>>
  /\ wdel = <<>>
  /\ wtmp = <<>>
  /\ wclient = <<>>
  /\ totalDeleted = 0
  /\ gerr = 0
  /\ ctxDone = FALSE
  /\ batches = <<>>
  /\ doresult = [n |-> 0, err |-> FALSE]
  /\ dofail = 0

InitBucketIdle ==
  /\ bpc = "off"
  /\ bucket = 0
  /\ bk = <<>>
  /\ blog = <<>>
  /\ bctxDone = FALSE
  /\ bresult = [err |-> FALSE, cause |-> 0]

InitFileServiceIdle ==
  /\ hier = <<>>
  /\ rscope = [Type |-> "", ID |-> 0]
  /\ rcalls = <<>>

InitClientIdle ==
  /\ regionClients = <<>>
  /\ clientMutex = [readers |-> {}, writer |-> 0]
  /\ cpc = <<>>
  /\ creg = <<>>
  /\ cgot = <<>>
  /\ constructed = <<>>

Init ==
  InitSvc /\ InitDOIdle /\ InitClientIdle /\ InitBucketIdle
    /\ InitFileServiceIdle

Next ==
  \/ \E t \in MsgTypes, id \in Ids :
       ProcessCleansingMessage([Type |-> t, ID |-> id])
  \/ BackendReturn
  \/ DeleteSiteFiles
  \/ DeleteProjectFiles
  \/ DeleteContractorFiles
  \/ MessageHandler

Spec == Init /\ [][Next]_vars

(***************************************************************************)
(* Redelivery: HandleMessage returns the service's error with retry, the   *)
(* queue delivers the same message again and the service runs again on the *)
(* store as the failed delivery left it.                                   *)
(***************************************************************************)
MaxDeliveries == 3

Deliveries ==
  1 + Cardinality({k \in 1..Len(log) : log[k].ev = "redeliver"})

Redeliver ==
  /\ pc = "done" /\ hpc = "idle"
  /\ result.Err /\ IsValidType(msg.Type)
  /\ Deliveries < MaxDeliveries
  /\ pc' = Route(msg.Type)
  /\ loc' = NoLoc
  /\ result' = NoResult
  /\ ret' = [err |-> FALSE, n |-> 0, list |-> <<>>]
  /\ log' = Append(log, [ev |-> "redeliver", op |-> "HandleMessage",
                         id |-> msg.ID, x |-> 0, err |-> FALSE])
  /\ UNCHANGED <<msg, db, db0, pending, failures>>
  /\ UNCHANGED <<s3Vars, hVars>>

NextRedelivery ==
  \/ \E t \in {CleansingTypeSite, CleansingTypeProject}, id \in Ids :
       ProcessCleansingMessage([Type |-> t, ID |-> id])
  \/ BackendReturn
  \/ DeleteSiteFiles
  \/ DeleteProjectFiles
  \/ Redeliver

SpecRedelivery == Init /\ [][NextRedelivery]_vars

(***************************************************************************)
(* DeleteContractorFiles, the whole-bucket variant: read the contractor,   *)
(* delete its bucket, delete its row.                                      *)
(***************************************************************************)
NumContractors == 3

\* Step 1: contractorRepo.GetByID
DeleteContractorBucket_GetByID(id) ==
  /\ pc = "idle" /\ hpc = "idle"
  /\ msg' = [Type |-> CleansingTypeContractor, ID |-> id]
  /\ pending' = [op |-> OpContractorGetByID, id |-> id, x |-> 0]
  /\ log' = Append(log, [ev |-> "call", op |-> OpContractorGetByID,
                         id |-> id, x |-> 0, err |-> FALSE])
  /\ pc' = "bucket_contractor"
  /\ UNCHANGED <<db, db0, ret, loc, result, failures>>
  /\ UNCHANGED <<s3Vars, hVars>>

\* Steps 2 and 3: the bucket name must not be empty; s3Service.DeleteBucket
DeleteContractorBucket_DeleteBucket ==
  /\ pc = "bucket_contractor" /\ pending = NoCall
  /\ IF ret.err
     THEN Finish(FALSE, 0, "failed to retrieve contractor", TRUE)
     ELSE IF ret.n = 0
     THEN Finish(FALSE, 0, "contractor has no bucket name configured", TRUE)
     ELSE Call(OpDeleteBucket, ret.n, 0, "bucket_deleted")
  /\ UNCHANGED loc
  /\ UNCHANGED <<s3Vars, hVars>>

\* A plausible slip: the contractor row is deleted whatever DeleteBucket
\* returned.
DeleteContractorBucket_Delete_IgnoreError ==
  /\ pc = "bucket_deleted" /\ pending = NoCall
  /\ Call(OpContractorDelete, msg.ID, 0, "bucket_row")
  /\ UNCHANGED loc
  /\ UNCHANGED <<s3Vars, hVars>>

\* Step 4: contractorRepo.Delete, after DeleteBucket returned nil
DeleteContractorBucket_Delete ==
  /\ pc = "bucket_deleted" /\ pending = NoCall
  /\ IF ret.err
     THEN Finish(FALSE, 0, "failed to delete S3 bucket", TRUE)
     ELSE Call(OpContractorDelete, msg.ID, 0, "bucket_row")
  /\ UNCHANGED loc
  /\ UNCHANGED <<s3Vars, hVars>>

DeleteContractorBucket_Return ==
  /\ pc = "bucket_row" /\ pending = NoCall
  /\ IF ret.err
     THEN Finish(FALSE, 0, "failed to delete contractor record", TRUE)
     ELSE Finish(TRUE, 0, "", FALSE)
  /\ UNCHANGED loc
  /\ UNCHANGED <<s3Vars, hVars>>

\* the contractor table holds any of the contractors 1..NumContractors
InitContractorBucket ==
  /\ pc = "idle"
  /\ msg = [Type |-> "", ID |-> 0]
  /\ db \in {[FullDb EXCEPT !.contractors = S] :
               S \in SUBSET (1..NumContractors)}
  /\ db0 = db
  /\ log = <<>>
  /\ pending = NoCall
  /\ ret = [err |-> FALSE, n |-> 0, list |-> <<>>]
  /\ loc = NoLoc
  /\ result = NoResult
  /\ failures = 0
  /\ hpc = "idle"
  /\ hentry = ""
  /\ hbody = MalformedBody
  /\ hmsg = [Type |-> "", ID |-> 0]
  /\ hres = NoHres
  /\ hret = NoHret
  /\ InitDOIdle /\ InitClientIdle /\ InitBucketIdle /\ InitFileServiceIdle

NextContractorBucket ==
  \/ \E id \in 0..NumContractors : DeleteContractorBucket_GetByID(id)
  \/ BackendReturn
  \/ DeleteContractorBucket_DeleteBucket
  \/ DeleteContractorBucket_Delete
  \/ DeleteContractorBucket_Return

SpecContractorBucket == InitContractorBucket /\ [][NextContractorBucket]_vars

(***************************************************************************)
(* NullCleansingService: every operation returns at once.                  *)
(***************************************************************************)
MaxNullId == 4

NullIds == (0 - MaxNullId)..MaxNullId

\* the outcome literal the null service returns
NullResult(t, id) ==
  [Type |-> t, ID |-> id, Success |-> TRUE, FilesDeleted |-> 0,
   Error |-> "", Err |-> FALSE]

\* A plausible slip: the null service validates the type as the real one.
NullProcessCleansingMessage_Validating(m) ==
  /\ pc \in {"idle", "done"} /\ hpc = "idle"
  /\ msg' = m
  /\ result' = IF IsValidType(m.Type) THEN NullResult(m.Type, m.ID)
               ELSE [Type |-> m.Type, ID |-> m.ID, Success |-> FALSE,
                     FilesDeleted |-> 0, Error |-> "invalid cleansing type",
                     Err |-> TRUE]
  /\ pc' = "done"
  /\ UNCHANGED <<db, db0, log, pending, ret, loc, failures>>
  /\ UNCHANGED <<s3Vars, hVars>>

NullProcessCleansingMessage(m) ==
  /\ pc \in {"idle", "done"} /\ hpc = "idle"
  /\ msg' = m
  /\ result' = NullResult(m.Type, m.ID)
  /\ pc' = "done"
  /\ UNCHANGED <<db, db0, log, pending, ret, loc, failures>>
  /\ UNCHANGED <<s3Vars, hVars>>

\* DeleteContractorFiles, DeleteProjectFiles, DeleteSiteFiles of the null
\* service: t is the type constant of the method that is called
NullDeleteFiles(t, id) ==
  /\ pc \in {"idle", "done"} /\ hpc = "idle"
  /\ msg' = [Type |-> t, ID |-> id]
  /\ result' = NullResult(t, id)
  /\ pc' = "done"
  /\ UNCHANGED <<db, db0, log, pending, ret, loc, failures>>
  /\ UNCHANGED <<s3Vars, hVars>>

NextNull ==
  \/ \E t \in MsgTypes, id \in NullIds :
       NullProcessCleansingMessage([Type |-> t, ID |-> id])
  \/ \E id \in NullIds : NullDeleteFiles(CleansingTypeContractor, id)
  \/ \E id \in NullIds : NullDeleteFiles(CleansingTypeProject, id)
  \/ \E id \in NullIds : NullDeleteFiles(CleansingTypeSite, id)

SpecNull == Init /\ [][NextNull]_vars


(***************************************************************************)
(* Properties of the cleansing service.                                    *)
(***************************************************************************)
IsCall(i, op) == log[i].ev = "call" /\ log[i].op = op
IsRet(i, op) == log[i].ev = "ret" /\ log[i].op = op
Returned == pc = "done"

\* C1: a message whose type is not exactly "contractor", "project" or "site"
\* is answered with success=false, filesDeleted=0 and a non-nil error, and no
\* repository or S3 service method has been called.
C1_InvalidTypeRejected ==
  (Returned /\ ~IsValidType(msg.Type)) =>
     /\ result.Success = FALSE
     /\ result.FilesDeleted = 0
     /\ result.Err = TRUE
     /\ log = <<>>
     /\ pending = NoCall

C1_Witness == Returned /\ msg.Type = "Contractor" /\ result.Error # ""

\* b is called only after a has returned, every time.
CalledAfterReturnOf(b, a) ==
  \A i \in 1..Len(log) :
     IsCall(i, b) => \E j \in 1..(i - 1) : IsRet(j, a) /\ log[j].id = log[i].id

\* Calls are synchronous: a call starts only when the one before it returned.
NoOverlap ==
  \A i \in 2..Len(log) : log[i].ev = "call" => log[i - 1].ev = "ret"

\* C2: in DeleteSiteFiles the file hard-delete is invoked (and has returned)
\* before the document hard-delete, that one before the document-group
\* hard-delete, that one before the site row hard-delete, and no step starts
\* while an earlier call is still in flight.
C2_SiteCascadeOrder ==
  msg.Type = CleansingTypeSite =>
     /\ CalledAfterReturnOf(OpDocumentHardDeleteBySiteID,
                            OpFileHardDeleteBySiteID)
     /\ CalledAfterReturnOf(OpDocumentGroupHardDeleteBySiteID,
                            OpDocumentHardDeleteBySiteID)
     /\ CalledAfterReturnOf(OpSiteHardDelete,
                            OpDocumentGroupHardDeleteBySiteID)
     /\ NoOverlap

C2_Witness ==
  /\ msg.Type = CleansingTypeSite
  /\ Returned /\ result.Success
  /\ \E i \in 1..Len(log) : IsCall(i, OpSiteHardDelete)

\* C3: a mutating repository call is made only after key resolution and
\* DeleteObjects have both returned, and when DeleteObjects returned an error
\* no mutating call is made and no row is deleted.
C3_CascadeAfterObjects ==
  /\ \A i \in 1..Len(log) :
        (log[i].ev = "call" /\ log[i].op \in MutatingOps) =>
           \E j, k \in 1..(i - 1) :
              /\ j < k
              /\ log[j].ev = "ret" /\ log[j].op \in ListOps
              /\ IsRet(k, OpDeleteObjects)
  /\ (\E k \in 1..Len(log) : IsRet(k, OpDeleteObjects) /\ log[k].err) =>
        /\ \A i \in 1..Len(log) : log[i].op \notin MutatingOps
        /\ db = db0

C3_Witness ==
  /\ Returned
  /\ \E k \in 1..Len(log) : IsRet(k, OpDeleteObjects) /\ log[k].err
  /\ result.FilesDeleted > 0

\* C14: when DeleteObjects confirmed fewer objects than were resolved for the
\* scope, the request does not end with success=true.
C14_PartialNeverSuccess ==
  \A k \in 2..Len(log) :
     (IsRet(k, OpDeleteObjects) /\ log[k].x < log[k - 1].x) =>
        ~(Returned /\ result.Success)

\* C15: a request that returns after DeleteObjects was called reports in
\* filesDeleted the count DeleteObjects returned, on success and on failure;
\* a request that returns before that reports 0.
C15_FilesDeletedIsReturnedCount ==
  Returned =>
     IF \E k \in 1..Len(log) : IsCall(k, OpDeleteObjects)
     THEN \E k \in 1..Len(log) :
             IsRet(k, OpDeleteObjects) /\ result.FilesDeleted = log[k].x
     ELSE result.FilesDeleted = 0

C15_Witness ==
  /\ Returned /\ ~result.Success
  /\ result.FilesDeleted > 0
  /\ \E k \in 1..Len(log) : IsRet(k, OpDeleteObjects) /\ ~log[k].err
  /\ \E i \in 1..Len(log) : IsRet(i, OpSiteHardDeleteByProjectID)

\* C16: every request returns an outcome; the error returned next to it is
\* non-nil exactly when the outcome has success=false; a failed outcome has
\* a non-empty error string and a successful one an empty error string.
C16_OutcomeAndErrorAgree ==
  Returned =>
     /\ result # NoResult
     /\ result.Type = msg.Type /\ result.ID = msg.ID
     /\ result.Err <=> ~result.Success
     /\ ~result.Success => result.Error # ""
     /\ result.Success => result.Error = ""

C16_Witness ==
  /\ Returned /\ ~result.Success /\ result.Err
  /\ result.Error = "failed to delete project files"
  /\ IsRet(Len(log), OpUpdateProjectUsage) /\ ~log[Len(log)].err

\* the delete of the scope's own row
TopLevelDelete(t) ==
  IF t = CleansingTypeSite THEN OpSiteHardDelete
  ELSE IF t = CleansingTypeProject THEN OpProjectHardDelete
  ELSE OpContractorDelete

\* C17: success=true is returned only when the delete of the scope's own row
\* (site HardDelete, project HardDelete, contractor Delete) was called for
\* the requested id in this request and returned no error.
C17_SuccessNeedsTopLevelDelete ==
  (Returned /\ result.Success) =>
     \E k \in 2..Len(log) :
        /\ IsCall(k - 1, TopLevelDelete(msg.Type))
        /\ IsRet(k, TopLevelDelete(msg.Type))
        /\ log[k].id = msg.ID
        /\ ~log[k].err

C17_Witness ==
  /\ Returned /\ result.Success
  /\ msg.Type = CleansingTypeContractor
  /\ IsRet(Len(log), OpContractorDelete)
  /\ \E k \in 1..Len(log) : log[k].ev = "ret" /\ log[k].err

\* the hard deletes of rows below the scope's own row
DescendantDeletes ==
  {OpFileHardDeleteBySiteID, OpDocumentHardDeleteBySiteID,
   OpDocumentGroupHardDeleteBySiteID, OpSiteHardDeleteByProjectID,
   OpProjectHardDeleteByContractorID}

\* C18: a request in which a descendant-level hard delete failed still
\* reaches the delete of the scope's own row, and its success is decided by
\* that delete alone.
C18_DescendantFailuresTolerated ==
  (/\ Returned
   /\ \E k \in 1..Len(log) :
         /\ log[k].ev = "ret" /\ log[k].err
         /\ log[k].op \in DescendantDeletes) =>
     \E m \in 1..Len(log) :
        /\ IsRet(m, TopLevelDelete(msg.Type))
        /\ result.Success <=> ~log[m].err

\* every row's parent row exists: files under documents, documents under
\* document groups, groups under sites, sites under projects, projects under
\* the contractor
ParentsExist(d) ==
  /\ d.files \subseteq d.docs
  /\ d.docs \subseteq d.groups
  /\ d.groups \subseteq d.sites
  /\ \A s \in d.sites : ProjectOf(s) \in d.projects
  /\ d.projects # {} => Contractors \subseteq d.contractors

\* C19: during a project or contractor request no row is deleted while rows
\* below it still exist, also after a descendant delete or lookup failed.
C19_NoParentDeletedBeforeDescendants ==
  msg.Type \in {CleansingTypeProject, CleansingTypeContractor} =>
     ParentsExist(db)

PerSiteDeletes ==
  {OpFileHardDeleteBySiteID, OpDocumentHardDeleteBySiteID,
   OpDocumentGroupHardDeleteBySiteID}

\* the three per-site deletes of site s were called, in order, before i
PerSiteDeletesBefore(s, i) ==
  \E g \in 1..(i - 1) :
     /\ IsCall(g, OpDocumentGroupHardDeleteBySiteID) /\ log[g].id = s
     /\ \E d \in 1..(g - 1) :
           /\ IsCall(d, OpDocumentHardDeleteBySiteID) /\ log[d].id = s
           /\ \E f \in 1..(d - 1) :
                 IsCall(f, OpFileHardDeleteBySiteID) /\ log[f].id = s

\* C20: in a contractor request the files, documents and document groups of
\* every site of a project are deleted, in that order, before the sites of
\* that project; every sites-by-project delete comes before the
\* projects-by-contractor delete; the contractor row delete is the last
\* call.  When the hierarchy holds no files, DeleteObjects gets no ref,
\* filesDeleted is 0 and, no call failing, the outcome is success=true.
C20_ContractorCascadeOrder ==
  msg.Type = CleansingTypeContractor =>
     /\ \A i \in 1..Len(log) :
           IsCall(i, OpSiteHardDeleteByProjectID) =>
              /\ \A s \in db0.sites :
                    ProjectOf(s) = log[i].id => PerSiteDeletesBefore(s, i)
              /\ \A j \in 1..Len(log) :
                    (/\ log[j].ev = "call" /\ log[j].op \in PerSiteDeletes
                     /\ ProjectOf(log[j].id) = log[i].id) => j < i
     /\ \A i \in 1..Len(log) :
           IsCall(i, OpProjectHardDeleteByContractorID) =>
              \A j \in 1..Len(log) :
                 (/\ log[j].ev = "call"
                  /\ log[j].op \in
                       PerSiteDeletes \cup {OpSiteHardDeleteByProjectID})
                    => j < i
     /\ \A i \in 1..Len(log) :
           IsCall(i, OpContractorDelete) =>
              /\ \A j \in 1..Len(log) : log[j].ev = "call" /\ j # i => j < i
              /\ \E j \in 1..(i - 1) :
                    IsRet(j, OpProjectHardDeleteByContractorID)
     /\ db0.files = {} =>
           /\ \A i \in 1..Len(log) : IsCall(i, OpDeleteObjects) => log[i].x = 0
           /\ Returned => result.FilesDeleted = 0
           /\ (Returned /\ \A i \in 1..Len(log) : ~log[i].err) =>
                 result.Success

C20_Witness ==
  /\ msg = [Type |-> CleansingTypeContractor, ID |-> 1]
  /\ db0.files = {}
  /\ Returned /\ result.Success /\ result.FilesDeleted = 0
  /\ db.contractors = {} /\ db.projects = {} /\ db.sites = {}
  /\ \A s \in Sites : PerSiteDeletesBefore(s, Len(log))

\* HandleMessage was given a body that does not parse or whose type is not
\* one of the three scope types
BadBody ==
  /\ hentry = "HandleMessage"
  /\ Unmarshal(hbody).err \/ ~IsValidType(Unmarshal(hbody).msg.Type)

\* C21: for a body that is not valid JSON or has no valid type HandleMessage
\* returns nil and the cleansing service is never invoked;
\* processCleansingMessage given a message of an invalid type returns a nil
\* result and an error, and does not invoke the service either.
C21_BadMessageAcknowledged ==
  /\ BadBody =>
        /\ hpc = "done" /\ hret.returned /\ ~hret.err
        /\ ~hres.returned
        /\ pc = "idle" /\ log = <<>> /\ db = db0
  /\ (hentry = "processCleansingMessage" /\ ~IsValidType(hmsg.Type)) =>
        /\ hpc \in {"process", "processed"}
        /\ hpc = "processed" => hres.returned /\ hres.nil /\ hres.err
        /\ pc = "idle" /\ log = <<>> /\ db = db0

C21_Witness ==
  /\ BadBody
  /\ hbody.json /\ hbody.has = {"type", "id"} /\ hbody.Type = "Contractor"
  /\ hret.returned

\* C22: for a body that parses and has a valid type, HandleMessage returns
\* after the service did, with an error exactly when the service returned
\* one, and nil when the service succeeded.
C22_RequeueOnServiceError ==
  (hentry = "HandleMessage" /\ ~BadBody /\ hpc = "done") =>
     /\ Returned /\ msg = Unmarshal(hbody).msg
     /\ hret.returned
     /\ hret.err <=> result.Err
     /\ result.Success => ~hret.err

C22_Witness ==
  /\ hentry = "HandleMessage" /\ hpc = "done"
  /\ hret.err /\ result.FilesDeleted > 0
  /\ "id" \in hbody.has

\* the project that owns the scope of a site or project request
OwningProject == IF msg.Type = CleansingTypeSite THEN ProjectOf(msg.ID)
                 ELSE msg.ID

\* the sites of the scope of a site or project request
ScopeSites ==
  IF msg.Type = CleansingTypeSite THEN {msg.ID} \cap db0.sites
  ELSE {s \in db0.sites : ProjectOf(s) = msg.ID}

\* C23: once every object of a site or project scope is deleted and
\* UpdateProjectUsage has returned, the owning project's usage counter is
\* lower by the total size of the scope's files.
C23_UsageDecrementedBySize ==
  (/\ msg.Type \in {CleansingTypeSite, CleansingTypeProject}
   /\ \E k \in 2..Len(log) :
         /\ IsRet(k, OpDeleteObjects) /\ ~log[k].err
         /\ log[k].x = log[k - 1].x
   /\ \E k \in 1..Len(log) : IsRet(k, OpUpdateProjectUsage) /\ ~log[k].err)
  =>
     db.usage[OwningProject] =
       db0.usage[OwningProject] - SitesFilesSize(ScopeSites \cap db0.files)

\* the first call of the relational cascade, made after the usage update
AfterUsageUpdate ==
  IF msg.Type = CleansingTypeSite THEN OpFileHardDeleteBySiteID
  ELSE OpSiteGetByProjectID

\* C24: in site and project scope a failed UpdateProjectUsage does not stop
\* the request and does not change its outcome: after a complete object
\* deletion the relational cascade starts next and success is exactly a
\* top-level row delete that returned no error; after a failed object
\* deletion the outcome is the failure of that deletion; in both cases the
\* outcome carries the count DeleteObjects returned.
C24_UsageFailureTolerated ==
  \A k \in 4..Len(log) :
    (IsRet(k, OpUpdateProjectUsage) /\ log[k].err) =>
      /\ IsRet(k - 2, OpDeleteObjects)
      /\ Returned => result.FilesDeleted = log[k - 2].x
      /\ IF log[k - 2].err
         THEN Returned => (~result.Success /\ result.Err)
         ELSE /\ Len(log) = k => ~Returned
              /\ Len(log) > k =>
                   (IsCall(k + 1, AfterUsageUpdate) /\ log[k + 1].id = msg.ID)
              /\ Returned =>
                   (result.Success <=>
                      \E j \in (k + 1)..Len(log) :
                         /\ IsRet(j, TopLevelDelete(msg.Type))
                         /\ ~log[j].err)

C24_Witness ==
  /\ Returned /\ result.Success
  /\ msg.Type \in {CleansingTypeSite, CleansingTypeProject}
  /\ result.FilesDeleted > 0
  /\ \E k \in 1..Len(log) : IsRet(k, OpUpdateProjectUsage) /\ log[k].err

\* the listing of the request's scope
ScopeListing ==
  [op |-> IF msg.Type = CleansingTypeSite THEN OpListSiteFiles
          ELSE IF msg.Type = CleansingTypeProject THEN OpListProjectFiles
          ELSE OpListContractorFiles,
   id |-> msg.ID, x |-> 0]

\* C33: when a request ends with success=true, the key of every file row
\* that existed in the scope when the request started was submitted to
\* DeleteObjects.
C33_NoRowDeletedWithUnsubmittedKey ==
  (Returned /\ result.Success) =>
     LET existing == ListOf(ScopeListing, db0)
     IN /\ \E k \in 1..Len(log) :
              IsCall(k, OpDeleteObjects) /\ log[k].x = Len(loc.s3Objects)
        /\ \A i \in 1..Len(existing) :
              \E j \in 1..Len(loc.s3Objects) :
                 loc.s3Objects[j].Key = existing[i].Key

\* the stored size of the files behind the refs at the indices I
RECURSIVE RefsSize(_, _)
RefsSize(objs, I) ==
  IF I = {} THEN 0
  ELSE LET i == CHOOSE x \in I : TRUE
       IN FileSize(objs[i].Key[1], objs[i].Key[2]) + RefsSize(objs, I \ {i})

\* C34: when DeleteObjects fails in DeleteProjectFiles after deleting
\* deletedCount > 0 objects, the decrement passed to UpdateProjectUsage is
\* the total size of deletedCount of the listed objects (the ones that were
\* deleted, whichever they are).
C34_PartialDecrementIsDeletedSize ==
  \A k \in 2..Len(log) :
    (/\ msg.Type = CleansingTypeProject
     /\ IsCall(k, OpUpdateProjectUsage)
     /\ IsRet(k - 1, OpDeleteObjects) /\ log[k - 1].err)
    =>
      \E I \in SUBSET (1..Len(loc.s3Objects)) :
         /\ Cardinality(I) = log[k - 1].x
         /\ 0 - log[k].x = RefsSize(loc.s3Objects, I)

\* the row of the request's own scope is not stored when the request starts
OwnRowMissing ==
  CASE msg.Type = CleansingTypeSite -> msg.ID \notin db0.sites
    [] msg.Type = CleansingTypeProject -> msg.ID \notin db0.projects
    [] msg.Type = CleansingTypeContractor -> msg.ID \notin db0.contractors
    [] OTHER -> FALSE

\* C36: a site or project request whose own row is missing never calls
\* DeleteObjects, UpdateProjectUsage or a hard delete and returns
\* success=false, filesDeleted=0 and a non-nil error; a contractor request
\* for a contractor without rows, none of whose calls failed, returns
\* success=true with filesDeleted=0.
C36_MissingOwnRow ==
  OwnRowMissing =>
    IF msg.Type = CleansingTypeContractor
    THEN (Returned /\ \A k \in 1..Len(log) : ~log[k].err) =>
            (result.Success /\ result.FilesDeleted = 0 /\ ~result.Err)
    ELSE /\ \A k \in 1..Len(log) :
              log[k].op \notin
                MutatingOps \cup {OpDeleteObjects, OpUpdateProjectUsage}
         /\ pending.op \notin
              MutatingOps \cup {OpDeleteObjects, OpUpdateProjectUsage}
         /\ Returned =>
              (~result.Success /\ result.FilesDeleted = 0 /\ result.Err)

C36_Witness ==
  /\ Returned /\ OwnRowMissing /\ msg.Type = CleansingTypeProject
  /\ result.Error = "failed to list project files"
  /\ failures = 0

\* C38: in the whole-bucket variant contractorRepo.Delete is called only
\* right after DeleteBucket returned nil for the contractor's bucket; when
\* GetByID fails or returns an empty bucket name, neither DeleteBucket nor
\* Delete is called, the contractor table is unchanged and the outcome is
\* success=false with a non-nil error.
C38_RowDeletedAfterBucket ==
  /\ \A k \in 1..Len(log) :
       IsCall(k, OpContractorDelete) =>
         /\ k > 2
         /\ IsRet(k - 1, OpDeleteBucket) /\ ~log[k - 1].err
         /\ log[k - 1].id = AwsBucketName(msg.ID)
         /\ log[k].id = msg.ID
  /\ (\E k \in 1..Len(log) :
        IsRet(k, OpContractorGetByID) /\ (log[k].err \/ log[k].x = 0))
     =>
       /\ \A k \in 1..Len(log) :
            log[k].op \notin {OpDeleteBucket, OpContractorDelete}
       /\ pending = NoCall
       /\ db.contractors = db0.contractors
       /\ Returned => (~result.Success /\ result.Err)
  /\ (Returned /\ result.Success) =>
       IsRet(Len(log), OpContractorDelete) /\ ~log[Len(log)].err

C38_Witness ==
  /\ Returned /\ result.Success
  /\ msg.ID \in db0.contractors /\ msg.ID \notin db.contractors
  /\ \E k \in 1..Len(log) : IsRet(k, OpDeleteBucket) /\ ~log[k].err

\* C39: whatever the null service is asked, as often as it is asked, it
\* returns a nil error and success=true, filesDeleted=0 with the type and id
\* of the request, calls no repository or S3 method and leaves the store as
\* it was.
C39_NullServiceAlwaysSucceeds ==
  Returned =>
    /\ result.Success /\ ~result.Err
    /\ result.FilesDeleted = 0
    /\ result.Type = msg.Type /\ result.ID = msg.ID
    /\ log = <<>> /\ pending = NoCall
    /\ db = db0

C39_Witness ==
  /\ Returned /\ ~IsValidType(msg.Type) /\ msg.ID < 0
  /\ result.Success /\ result.Type = "bogus"
  /\ db0.files # {}

\* the decrements passed to UpdateProjectUsage by the calls log[1..k]
RECURSIVE TotalDecrement(_)
TotalDecrement(k) ==
  IF k = 0 THEN 0
  ELSE (IF IsCall(k, OpUpdateProjectUsage) THEN 0 - log[k].x ELSE 0)
         + TotalDecrement(k - 1)

NumPartitions == 4
MaxDOFailures == 1
MaxObjects == 4000

maxDeleteBatchSize == 1000
maxConcurrentDeletes == 3
maxRetries == 3

Partitions == 1..NumPartitions
PartSizes == {0, maxDeleteBatchSize, maxDeleteBatchSize + 1,
              2 * maxDeleteBatchSize + 1}

RegionOf(p) ==
  IF p = 1 THEN ""
  ELSE IF p % 2 = 0 THEN "ap-southeast-1" ELSE "us-east-1"
NamedRegions == {"ap-southeast-1", "us-east-1"}

\* len(objects) of an input given as refs per partition
RECURSIVE SumObjs(_, _)
SumObjs(f, k) == IF k = 0 THEN 0 ELSE f[k] + SumObjs(f, k - 1)

\* the client values: nil, the default client, the k-th client built
NilClient == 0
DefaultClient == 1
BuiltClient(k) == k + 1

doIdleVars == <<clientMutex, cpc, creg, cgot, bkVars, fsVars>>

Launched(p) == wpc[p] # "idle"
Unlaunched == {p \in Partitions : objects[p] > 0 /\ ~Launched(p)}
\* the nested range loops: the buckets of one region are launched before
\* the loop moves to another region; map order is unspecified
NextPartitions ==
  IF \E p \in Unlaunched : RegionOf(p) = mregion
  THEN {p \in Unlaunched : RegionOf(p) = mregion}
  ELSE Unlaunched

InFlight == {p \in Partitions :
               wpc[p] \in {"client", "batch", "error", "add", "store"}}

DeleteObjects_Empty ==
  /\ mainpc = "start"
  /\ \A p \in Partitions : objects[p] = 0
  /\ mainpc' = "done"
  /\ doresult' = [n |-> 0, err |-> FALSE]
  /\ UNCHANGED wclient
  /\ UNCHANGED <<objects, mregion, wpc, sem, widx, wdel, wtmp, totalDeleted,
                 gerr, ctxDone, batches, dofail>>
  /\ UNCHANGED <<svcVars, clVars, bkVars, fsVars>>

DeleteObjects_Group ==
  /\ mainpc = "start"
  /\ \E p \in Partitions : objects[p] > 0
  /\ mainpc' = "range"
  /\ totalDeleted' = 0
  /\ sem' = 0
  /\ UNCHANGED wclient
  /\ UNCHANGED <<objects, mregion, wpc, widx, wdel, wtmp, gerr, ctxDone,
                 batches, doresult, dofail>>
  /\ UNCHANGED <<svcVars, clVars, bkVars, fsVars>>

DeleteObjects_Go_NoSemaphore(p) ==
  /\ mainpc = "range"
  /\ p \in NextPartitions
  /\ sem' = sem + 1
  /\ mregion' = IF \E q \in Unlaunched \ {p} : RegionOf(q) = RegionOf(p)
                THEN RegionOf(p) ELSE "none"
  /\ wpc' = [wpc EXCEPT ![p] = "client"]
  /\ UNCHANGED wclient
  /\ UNCHANGED <<objects, mainpc, widx, wdel, wtmp, totalDeleted, gerr,
                 ctxDone, batches, doresult, dofail>>
  /\ UNCHANGED <<svcVars, clVars, bkVars, fsVars>>

DeleteObjects_Go(p) ==
  /\ mainpc = "range"
  /\ p \in NextPartitions
  /\ sem < maxConcurrentDeletes
  /\ sem' = sem + 1
  /\ mregion' = IF \E q \in Unlaunched \ {p} : RegionOf(q) = RegionOf(p)
                THEN RegionOf(p) ELSE "none"
  /\ wpc' = [wpc EXCEPT ![p] = "client"]
  /\ UNCHANGED wclient
  /\ UNCHANGED <<objects, mainpc, widx, wdel, wtmp, totalDeleted, gerr,
                 ctxDone, batches, doresult, dofail>>
  /\ UNCHANGED <<svcVars, clVars, bkVars, fsVars>>

DeleteObjects_Wait ==
  /\ mainpc = "range"
  /\ Unlaunched = {}
  /\ \A p \in Partitions : wpc[p] \in {"idle", "done", "failed"}
  /\ mainpc' = "done"
  /\ doresult' = [n |-> totalDeleted, err |-> gerr # 0]
  /\ UNCHANGED wclient
  /\ UNCHANGED <<objects, mregion, wpc, sem, widx, wdel, wtmp, totalDeleted,
                 gerr, ctxDone, batches, dofail>>
  /\ UNCHANGED <<svcVars, clVars, bkVars, fsVars>>

\* the bucket of partition p
BucketOf(p) == p

\* a client as a goroutine holds it: the region it is configured for and
\* the client value
ClientFor(region, c) == [region |-> region, id |-> c]

\* A plausible slip: the service's own client is used for every region, as
\* deleteBatch does.
Worker_getClientForRegion_Default(p) ==
  /\ wpc[p] = "client"
  /\ wclient' = [wclient EXCEPT ![p] = ClientFor("", DefaultClient)]
  /\ wpc' = [wpc EXCEPT ![p] = "batch"]
  /\ UNCHANGED <<regionClients, constructed, dofail>>
  /\ UNCHANGED <<objects, mainpc, mregion, sem, widx, wdel, wtmp,
                 totalDeleted, gerr, ctxDone, batches, doresult>>
  /\ UNCHANGED <<svcVars, doIdleVars>>

\* the goroutine of partition p calls getClientForRegion(ctx, region)
Worker_getClientForRegion(p) ==
  /\ wpc[p] = "client"
  /\ LET region == RegionOf(p) IN
       IF region = ""
       THEN /\ wclient' = [wclient EXCEPT ![p] = ClientFor("", DefaultClient)]
            /\ wpc' = [wpc EXCEPT ![p] = "batch"]
            /\ UNCHANGED <<regionClients, constructed, dofail>>
       ELSE IF regionClients[region] # NilClient
       THEN /\ wclient' = [wclient EXCEPT
                             ![p] = ClientFor(region, regionClients[region])]
            /\ wpc' = [wpc EXCEPT ![p] = "batch"]
            /\ UNCHANGED <<regionClients, constructed, dofail>>
       ELSE \/ /\ constructed' = [constructed EXCEPT ![region] = @ + 1]
               /\ regionClients' =
                    [regionClients EXCEPT
                       ![region] = BuiltClient(constructed'[region])]
               /\ wclient' = [wclient EXCEPT
                    ![p] = ClientFor(region, regionClients'[region])]
               /\ wpc' = [wpc EXCEPT ![p] = "batch"]
               /\ UNCHANGED dofail
            \/ /\ dofail < MaxDOFailures
               /\ dofail' = dofail + 1
               /\ wpc' = [wpc EXCEPT ![p] = "error"]
               /\ UNCHANGED <<regionClients, constructed, wclient>>
  /\ UNCHANGED <<objects, mainpc, mregion, sem, widx, wdel, wtmp,
                 totalDeleted, gerr, ctxDone, batches, doresult>>
  /\ UNCHANGED <<svcVars, doIdleVars>>

\* len(objects[i:end]) of deleteBucketObjectsWithClient
BatchLen_NoCap(i, n) == n - i

BatchLen(i, n) ==
  IF i + maxDeleteBatchSize > n THEN n - i ELSE maxDeleteBatchSize

\* what client.DeleteObjects can answer for a batch of n keys: all keys
\* deleted, one key reported in result.Errors, or a transport error; a call
\* under a cancelled context fails
BatchOutcomes(n) ==
  IF ctxDone
  THEN {[deleted |-> 0, err |-> TRUE, cancelled |-> TRUE, injected |-> 0]}
  ELSE {[deleted |-> n, err |-> FALSE, cancelled |-> FALSE, injected |-> 0],
        [deleted |-> n - 1, err |-> FALSE, cancelled |-> FALSE,
         injected |-> 1],
        [deleted |-> 0, err |-> TRUE, cancelled |-> FALSE, injected |-> 1]}

\* one iteration of deleteBucketObjectsWithClient: deleteBatchWithClient
Worker_deleteBatchWithClient(p) ==
  /\ wpc[p] = "batch"
  /\ widx[p] < objects[p]
  /\ LET n == BatchLen(widx[p], objects[p]) IN
     \E o \in BatchOutcomes(n) :
       /\ dofail + o.injected <= MaxDOFailures
       /\ dofail' = dofail + o.injected
       /\ batches' = [batches EXCEPT ![p] =
            Append(@, [ev |-> "DeleteObjects", i |-> widx[p], n |-> n,
                       deleted |-> o.deleted, err |-> o.err,
                       cancelled |-> o.cancelled,
                       bucket |-> BucketOf(p), client |-> wclient[p]])]
       /\ IF o.err
          THEN /\ wpc' = [wpc EXCEPT ![p] = "error"]
               /\ UNCHANGED <<widx, wdel>>
          ELSE /\ wdel' = [wdel EXCEPT ![p] = @ + o.deleted]
               /\ widx' = [widx EXCEPT ![p] = @ + maxDeleteBatchSize]
               /\ wpc' = [wpc EXCEPT ![p] =
                    IF widx'[p] < objects[p] THEN "batch" ELSE "add"]
  /\ UNCHANGED wclient
  /\ UNCHANGED <<objects, mainpc, mregion, sem, wtmp, totalDeleted, gerr,
                 ctxDone, doresult>>
  /\ UNCHANGED <<svcVars, clVars, bkVars, fsVars>>

\* totalDeleted += deleted is a read and a write of the shared variable,
\* with no lock around them
Worker_ReadTotal(p) ==
  /\ wpc[p] = "add"
  /\ wtmp' = [wtmp EXCEPT ![p] = totalDeleted]
  /\ wpc' = [wpc EXCEPT ![p] = "store"]
  /\ UNCHANGED wclient
  /\ UNCHANGED <<objects, mainpc, mregion, sem, widx, wdel, totalDeleted,
                 gerr, ctxDone, batches, doresult, dofail>>
  /\ UNCHANGED <<svcVars, clVars, bkVars, fsVars>>

\* A plausible slip: the slot is released on the error path only.
Worker_WriteTotal_NoRelease(p) ==
  /\ wpc[p] = "store"
  /\ totalDeleted' = wtmp[p] + wdel[p]
  /\ wpc' = [wpc EXCEPT ![p] = "done"]
  /\ wtmp' = [wtmp EXCEPT ![p] = 0]
  /\ UNCHANGED wclient
  /\ UNCHANGED <<objects, mainpc, mregion, sem, widx, wdel, gerr, ctxDone,
                 batches, doresult, dofail>>
  /\ UNCHANGED <<svcVars, clVars, bkVars, fsVars>>

\* the write, return nil, and the deferred <-sem
Worker_WriteTotal(p) ==
  /\ wpc[p] = "store"
  /\ totalDeleted' = wtmp[p] + wdel[p]
  /\ sem' = sem - 1
  /\ wpc' = [wpc EXCEPT ![p] = "done"]
  /\ wtmp' = [wtmp EXCEPT ![p] = 0]
  /\ UNCHANGED wclient
  /\ UNCHANGED <<objects, mainpc, mregion, widx, wdel, gerr, ctxDone,
                 batches, doresult, dofail>>
  /\ UNCHANGED <<svcVars, clVars, bkVars, fsVars>>

\* return fmt.Errorf(...): the deferred <-sem runs first
Worker_ReturnError(p) ==
  /\ wpc[p] = "error"
  /\ sem' = sem - 1
  /\ wpc' = [wpc EXCEPT ![p] = "cancel"]
  /\ UNCHANGED wclient
  /\ UNCHANGED <<objects, mainpc, mregion, widx, wdel, wtmp, totalDeleted,
                 gerr, ctxDone, batches, doresult, dofail>>
  /\ UNCHANGED <<svcVars, clVars, bkVars, fsVars>>

\* errgroup: the first error is kept and the group context is cancelled
Worker_Cancel(p) ==
  /\ wpc[p] = "cancel"
  /\ gerr' = IF gerr = 0 THEN p ELSE gerr
  /\ ctxDone' = TRUE
  /\ wpc' = [wpc EXCEPT ![p] = "failed"]
  /\ UNCHANGED wclient
  /\ UNCHANGED <<objects, mainpc, mregion, sem, widx, wdel, wtmp,
                 totalDeleted, batches, doresult, dofail>>
  /\ UNCHANGED <<svcVars, clVars, bkVars, fsVars>>

InitDO ==
  /\ InitSvc
  /\ InitFileServiceIdle
  /\ db = FullDb
  /\ InitBucketIdle
  /\ objects \in {f \in [Partitions -> PartSizes] :
                     SumObjs(f, NumPartitions) <= MaxObjects}
  /\ mainpc = "start"
  /\ mregion = "none"
  /\ wpc = [p \in Partitions |-> "idle"]
  /\ sem = 0
  /\ widx = [p \in Partitions |-> 0]
  /\ wdel = [p \in Partitions |-> 0]
  /\ wtmp = [p \in Partitions |-> 0]
  /\ wclient = [p \in Partitions |-> ClientFor("", NilClient)]
  /\ totalDeleted = 0
  /\ gerr = 0
  /\ ctxDone = FALSE
  /\ batches = [p \in Partitions |-> <<>>]
  /\ doresult = [n |-> 0, err |-> FALSE]
  /\ dofail = 0
  /\ regionClients = [r \in NamedRegions |-> NilClient]
  /\ constructed = [r \in NamedRegions |-> 0]
  /\ clientMutex = [readers |-> {}, writer |-> 0]
  /\ cpc = <<>>
  /\ creg = <<>>
  /\ cgot = <<>>

NextDO ==
  \/ DeleteObjects_Empty
  \/ DeleteObjects_Group
  \/ \E p \in Partitions : DeleteObjects_Go(p)
  \/ DeleteObjects_Wait
  \/ \E p \in Partitions : Worker_getClientForRegion(p)
  \/ \E p \in Partitions : Worker_deleteBatchWithClient(p)
  \/ \E p \in Partitions : Worker_ReadTotal(p)
  \/ \E p \in Partitions : Worker_WriteTotal(p)
  \/ \E p \in Partitions : Worker_ReturnError(p)
  \/ \E p \in Partitions : Worker_Cancel(p)

SpecDO == InitDO /\ [][NextDO]_vars

\* The Go scheduler keeps running some runnable goroutine: the launching
\* loop or a worker takes a step as long as one of them can.
SpecDOFair == SpecDO /\ WF_vars(NextDO)


(***************************************************************************)
(* Properties of DeleteObjects.                                            *)
(***************************************************************************)
DOReturned == mainpc = "done"

RECURSIVE SumDeleted(_)
SumDeleted(calls) ==
  IF calls = <<>> THEN 0 ELSE Head(calls).deleted + SumDeleted(Tail(calls))

RECURSIVE SumKeys(_)
SumKeys(calls) ==
  IF calls = <<>> THEN 0 ELSE Head(calls).n + SumKeys(Tail(calls))

\* objects of partition p the backend confirmed as deleted
Confirmed(p) == SumDeleted(batches[p])

RECURSIVE SumConfirmed(_)
SumConfirmed(ps) ==
  IF ps = {} THEN 0
  ELSE LET p == CHOOSE q \in ps : TRUE
       IN Confirmed(p) + SumConfirmed(ps \ {p})

BatchesNeeded(n) == (n + maxDeleteBatchSize - 1) \div maxDeleteBatchSize

\* the batch loop of partition p ran to its end with no failing call
LoopCompleted(p) == wpc[p] \in {"add", "store", "done"}

\* C4: no batch call carries more than 1000 keys, and a partition of N refs
\* whose calls all succeed gets exactly ceil(N/1000) batch calls, which
\* carry its N keys.
C4_BatchCount ==
  \A p \in Partitions :
    /\ \A k \in DOMAIN batches[p] :
         batches[p][k].n >= 1 /\ batches[p][k].n <= maxDeleteBatchSize
    /\ LoopCompleted(p) =>
         /\ Len(batches[p]) = BatchesNeeded(objects[p])
         /\ SumKeys(batches[p]) = objects[p]

C4_Witness ==
  /\ DOReturned
  /\ ~doresult.err
  /\ \E p \in Partitions :
       /\ objects[p] = 2 * maxDeleteBatchSize + 1
       /\ Len(batches[p]) = 3
       /\ batches[p][3].n = 1

\* C5: when the only partition of the input fails at a batch after k batches
\* succeeded, DeleteObjects returns an error and the number of objects
\* confirmed deleted in those k batches.
C5_PartialCountReturned ==
  (DOReturned /\ gerr # 0 /\ Cardinality({p \in Partitions : objects[p] > 0}) = 1)
    => (doresult.err /\ doresult.n = Confirmed(gerr))

\* C6: the count DeleteObjects returns is the sum, over the partitions that
\* completed, of the objects the backend confirmed as deleted.
C6_NoLostUpdate ==
  DOReturned =>
    doresult.n = SumConfirmed({p \in Partitions : wpc[p] = "done"})

\* C7: at most maxConcurrentDeletes partition goroutines hold a semaphore
\* slot at any moment.
C7_AtMostThreeInFlight ==
  /\ Cardinality(InFlight) <= maxConcurrentDeletes
  /\ sem = Cardinality(InFlight)

C7_Witness ==
  /\ mainpc = "range"
  /\ Cardinality(InFlight) = maxConcurrentDeletes
  /\ Unlaunched # {}

\* C8: a batch whose call failed at transport level (the context not being
\* cancelled) has been tried maxRetries + 1 times when DeleteObjects returns
\* its error.
C8_RetriedBeforeSurfaced ==
  (DOReturned /\ doresult.err) =>
    \A p \in Partitions : \A k \in DOMAIN batches[p] :
      (batches[p][k].err /\ ~batches[p][k].cancelled) =>
        Cardinality({j \in DOMAIN batches[p] :
                       batches[p][j].i = batches[p][k].i /\ batches[p][j].err})
          = maxRetries + 1

\* C9: in the sequence of rate limiter acquisitions and backend calls of a
\* goroutine, every backend call comes right after an acquisition.
C9_RateLimited ==
  \A p \in Partitions : \A k \in DOMAIN batches[p] :
    batches[p][k].ev # "Wait" =>
      (k > 1 /\ batches[p][k - 1].ev = "Wait")

\* the client a batch call of partition p has to use
ExpectedClient(p) ==
  IF RegionOf(p) = "" THEN ClientFor("", DefaultClient)
  ELSE ClientFor(RegionOf(p), regionClients[RegionOf(p)])

\* every batch call of partition p goes to p's bucket with the client of
\* p's region and carries the refs that follow those of the call before
BatchCallsPartitioned ==
  \A p \in Partitions : \A k \in DOMAIN batches[p] :
    /\ batches[p][k].bucket = BucketOf(p)
    /\ batches[p][k].client = ExpectedClient(p)
    /\ batches[p][k].client.id # NilClient
    /\ batches[p][k].i = (k - 1) * maxDeleteBatchSize
    /\ batches[p][k].i + batches[p][k].n <= objects[p]

AllRefsSent == \A p \in Partitions : SumKeys(batches[p]) = objects[p]

C37_DeleteObjectsTerminates ==
  <>(/\ DOReturned
     /\ sem = 0
     /\ \A p \in Partitions :
          IF objects[p] > 0 THEN wpc[p] \in {"done", "failed"}
          ELSE wpc[p] = "idle")

\* more partitions than slots, one of them failed
C37_Witness ==
  /\ DOReturned /\ doresult.err
  /\ Cardinality({p \in Partitions : objects[p] > 0}) > maxConcurrentDeletes
  /\ \E p \in Partitions : wpc[p] = "failed"
  /\ \E p \in Partitions : wpc[p] = "done"
  /\ sem = 0

(***************************************************************************)
(* S3ServiceImpl.getClientForRegion called by concurrent goroutines.       *)
(***************************************************************************)
NumCallers == 3

Callers == 1..NumCallers
ClientRegions == NamedRegions \cup {""}

clOtherVars == <<svcVars, doVars, bkVars, fsVars>>

\* if region == "" { return s3s.client, nil }
Client_Default(c) ==
  /\ cpc[c] = "start"
  /\ creg[c] = ""
  /\ cgot' = [cgot EXCEPT ![c] = [client |-> DefaultClient, err |-> FALSE]]
  /\ cpc' = [cpc EXCEPT ![c] = "done"]
  /\ UNCHANGED <<regionClients, clientMutex, creg, constructed, clOtherVars>>

\* s3s.clientMutex.RLock()
Client_RLock(c) ==
  /\ cpc[c] = "start"
  /\ creg[c] # ""
  /\ clientMutex.writer = 0
  /\ clientMutex' = [clientMutex EXCEPT !.readers = @ \cup {c}]
  /\ cpc' = [cpc EXCEPT ![c] = "rcheck"]
  /\ UNCHANGED <<regionClients, creg, cgot, constructed, clOtherVars>>

\* the lookup under the read lock, and RUnlock on both branches
Client_Check(c) ==
  /\ cpc[c] = "rcheck"
  /\ clientMutex' = [clientMutex EXCEPT !.readers = @ \ {c}]
  /\ IF regionClients[creg[c]] # NilClient
     THEN /\ cgot' = [cgot EXCEPT
                 ![c] = [client |-> regionClients[creg[c]], err |-> FALSE]]
          /\ cpc' = [cpc EXCEPT ![c] = "done"]
     ELSE /\ cpc' = [cpc EXCEPT ![c] = "lock"]
          /\ UNCHANGED cgot
  /\ UNCHANGED <<regionClients, creg, constructed, clOtherVars>>

\* s3s.clientMutex.Lock()
Client_Lock(c) ==
  /\ cpc[c] = "lock"
  /\ clientMutex.writer = 0
  /\ clientMutex.readers = {}
  /\ clientMutex' = [clientMutex EXCEPT !.writer = c]
  /\ cpc' = [cpc EXCEPT ![c] = "dcheck"]
  /\ UNCHANGED <<regionClients, creg, cgot, constructed, clOtherVars>>

Client_DoubleCheck_Skipped(c) ==
  /\ cpc[c] = "dcheck"
  /\ cpc' = [cpc EXCEPT ![c] = "load"]
  /\ UNCHANGED <<regionClients, clientMutex, creg, cgot, constructed,
                 clOtherVars>>

\* the second lookup, under the write lock; the deferred Unlock on return
Client_DoubleCheck(c) ==
  /\ cpc[c] = "dcheck"
  /\ IF regionClients[creg[c]] # NilClient
     THEN /\ cgot' = [cgot EXCEPT
                 ![c] = [client |-> regionClients[creg[c]], err |-> FALSE]]
          /\ cpc' = [cpc EXCEPT ![c] = "done"]
          /\ clientMutex' = [clientMutex EXCEPT !.writer = 0]
     ELSE /\ cpc' = [cpc EXCEPT ![c] = "load"]
          /\ UNCHANGED <<cgot, clientMutex>>
  /\ UNCHANGED <<regionClients, creg, constructed, clOtherVars>>

\* config.LoadDefaultConfig: it may fail, and then nil is returned
Client_LoadDefaultConfig(c) ==
  /\ cpc[c] = "load"
  /\ \/ /\ cpc' = [cpc EXCEPT ![c] = "new"]
        /\ UNCHANGED <<cgot, clientMutex>>
     \/ /\ cgot' = [cgot EXCEPT ![c] = [client |-> NilClient, err |-> TRUE]]
        /\ cpc' = [cpc EXCEPT ![c] = "done"]
        /\ clientMutex' = [clientMutex EXCEPT !.writer = 0]
  /\ UNCHANGED <<regionClients, creg, constructed, clOtherVars>>

\* s3.NewFromConfig, the store into the cache, the deferred Unlock
Client_NewFromConfig(c) ==
  /\ cpc[c] = "new"
  /\ constructed' = [constructed EXCEPT ![creg[c]] = @ + 1]
  /\ regionClients' =
       [regionClients EXCEPT
          ![creg[c]] = BuiltClient(constructed'[creg[c]])]
  /\ cgot' = [cgot EXCEPT
        ![c] = [client |-> regionClients'[creg[c]], err |-> FALSE]]
  /\ cpc' = [cpc EXCEPT ![c] = "done"]
  /\ clientMutex' = [clientMutex EXCEPT !.writer = 0]
  /\ UNCHANGED <<creg, clOtherVars>>

InitClient ==
  /\ InitSvc
  /\ InitFileServiceIdle
  /\ db = FullDb
  /\ InitDOIdle
  /\ InitBucketIdle
  /\ regionClients = [r \in NamedRegions |-> NilClient]
  /\ constructed = [r \in NamedRegions |-> 0]
  /\ clientMutex = [readers |-> {}, writer |-> 0]
  /\ cpc = [c \in Callers |-> "start"]
  /\ creg \in [Callers -> ClientRegions]
  /\ cgot = [c \in Callers |-> [client |-> NilClient, err |-> FALSE]]

NextClient ==
  \/ \E c \in Callers : Client_Default(c)
  \/ \E c \in Callers : Client_RLock(c)
  \/ \E c \in Callers : Client_Check(c)
  \/ \E c \in Callers : Client_Lock(c)
  \/ \E c \in Callers : Client_DoubleCheck(c)
  \/ \E c \in Callers : Client_LoadDefaultConfig(c)
  \/ \E c \in Callers : Client_NewFromConfig(c)

SpecClient == InitClient /\ [][NextClient]_vars


(***************************************************************************)
(* Properties of getClientForRegion.                                       *)
(***************************************************************************)
\* the RWMutex excludes a writer from readers and from another writer
MutexExclusion ==
  clientMutex.writer # 0 => clientMutex.readers = {}

OneClientPerRegion ==
  \A r \in NamedRegions :
    /\ constructed[r] <= 1
    /\ regionClients[r] =
         (IF constructed[r] = 0 THEN NilClient ELSE BuiltClient(1))
    /\ \A c \in Callers :
         (cpc[c] = "done" /\ creg[c] = r /\ ~cgot[c].err) =>
           (cgot[c].client # NilClient /\ cgot[c].client = regionClients[r])

EntryNeverReplaced ==
  \A r \in NamedRegions :
    regionClients[r] # NilClient => regionClients'[r] = regionClients[r]

\* C10: for each named region at most one client is built and stored, every
\* caller that is given a client is given that one, and a stored entry is
\* never replaced or removed, whatever the interleaving of the callers.
C10_SingleClientPerRegion ==
  [](OneClientPerRegion /\ MutexExclusion) /\ [][EntryNeverReplaced]_vars

C10_Witness ==
  \E c1, c2 \in Callers :
    /\ c1 # c2
    /\ creg[c1] # "" /\ creg[c2] = creg[c1]
    /\ cpc[c1] = "done" /\ cgot[c1].client = BuiltClient(1)
    /\ cpc[c2] = "dcheck"


(***************************************************************************)
(* S3ServiceImpl.DeleteBucket: empty the bucket page by page, then remove  *)
(* it.  One goroutine; the backend and the caller's context are the        *)
(* environment.                                                            *)
(***************************************************************************)
MaxBucketObjects == 2001

\* ListObjectsV2Input.MaxKeys
listPageSize == 1000

\* retry delays, in milliseconds
baseDelay == 100
maxDelay == 5000

BucketSizes ==
  {n \in {0, 1, listPageSize, listPageSize + 1, 2 * listPageSize + 1} :
     n <= MaxBucketObjects}

NoBk ==
  [more |-> TRUE, unlisted |-> 0, page |-> 0, i |-> 0, attempt |-> 0,
   deleted |-> 0, totalDeleted |-> 0]

\* return err from DeleteBucket: the error of the step that has just failed
\* (the event this step appends to blog), wrapped
Bucket_ReturnError ==
  /\ bpc' = "done"
  /\ bresult' = [err |-> TRUE, cause |-> Len(blog) + 1]

\* A plausible slip: the limiter is waited on without the caller's context.
Bucket_Wait_Background(for, next) ==
  /\ blog' = Append(blog, [ev |-> "Wait", for |-> for, err |-> FALSE])
  /\ bpc' = next
  /\ UNCHANGED bresult

\* rateLimiter.Wait(ctx): an error when the context is cancelled
Bucket_Wait(for, next) ==
  IF bctxDone
  THEN /\ blog' = Append(blog, [ev |-> "Wait", for |-> for, err |-> TRUE])
       /\ Bucket_ReturnError
  ELSE /\ blog' = Append(blog, [ev |-> "Wait", for |-> for, err |-> FALSE])
       /\ bpc' = next
       /\ UNCHANGED bresult

\* the delay before the next attempt
RetryDelay(attempt) ==
  IF (attempt + 1) * baseDelay > maxDelay
  THEN maxDelay
  ELSE (attempt + 1) * baseDelay

\* select { case <-ctx.Done(): return ctx.Err(); case <-time.After(delay): }
\* A plausible slip: the attempt counter is not advanced.
Bucket_Select_NoCount(for, next) ==
  \/ /\ bctxDone
     /\ blog' = Append(blog, [ev |-> "Cancelled", for |-> for])
     /\ Bucket_ReturnError
     /\ UNCHANGED bk
  \/ /\ blog' = Append(blog, [ev |-> "Sleep", for |-> for,
                              delay |-> RetryDelay(bk.attempt)])
     /\ bpc' = next
     /\ UNCHANGED <<bk, bresult>>

Bucket_Select(for, next) ==
  \/ /\ bctxDone
     /\ blog' = Append(blog, [ev |-> "Cancelled", for |-> for])
     /\ Bucket_ReturnError
     /\ UNCHANGED bk
  \/ /\ blog' = Append(blog, [ev |-> "Sleep", for |-> for,
                              delay |-> RetryDelay(bk.attempt)])
     /\ bk' = [bk EXCEPT !.attempt = @ + 1]
     /\ bpc' = next
     /\ UNCHANGED bresult

\* for paginator.HasMorePages(); after the loop deleteAllObjectsInBucket
\* returns nil and DeleteBucket goes on to deleteBucketWithRetry
Bucket_HasMorePages ==
  /\ bpc = "loop"
  /\ IF bk.more
     THEN /\ bpc' = "list_wait"
          /\ UNCHANGED bk
     ELSE /\ bpc' = "rm_wait"
          /\ bk' = [bk EXCEPT !.attempt = 0]
  /\ UNCHANGED <<bucket, blog, bctxDone, bresult, svcVars, doVars, clVars, fsVars>>

Bucket_ListWait ==
  /\ bpc = "list_wait"
  /\ Bucket_Wait("list", "list")
  /\ UNCHANGED <<bucket, bk, bctxDone, svcVars, doVars, clVars, fsVars>>

PageLen(unlisted) ==
  IF unlisted > listPageSize THEN listPageSize ELSE unlisted

\* a listing error ends the loop without an error
Bucket_NextPage_ErrorIgnored ==
  /\ bpc = "list"
  /\ \/ /\ blog' = Append(blog, [ev |-> "ListPage", n |-> 0, err |-> TRUE])
        /\ bk' = [bk EXCEPT !.more = FALSE]
        /\ bpc' = "loop"
        /\ UNCHANGED bresult
     \/ /\ ~bctxDone
        /\ LET n == PageLen(bk.unlisted) IN
           /\ blog' = Append(blog, [ev |-> "ListPage", n |-> n,
                                    err |-> FALSE])
           /\ bk' = [bk EXCEPT !.unlisted = @ - n,
                               !.more = bk.unlisted - n > 0,
                               !.page = n, !.i = 0, !.attempt = 0,
                               !.deleted = 0]
           /\ bpc' = IF n = 0 THEN "loop" ELSE "batch_wait"
           /\ UNCHANGED bresult
  /\ UNCHANGED <<bucket, bctxDone, svcVars, doVars, clVars, fsVars>>

\* paginator.NextPage(ctx): an error, or the next page of at most
\* listPageSize keys; an empty page continues the loop, any other page goes
\* to deleteBucketObjectsOptimized
Bucket_NextPage ==
  /\ bpc = "list"
  /\ \/ /\ blog' = Append(blog, [ev |-> "ListPage", n |-> 0, err |-> TRUE])
        /\ Bucket_ReturnError
        /\ UNCHANGED bk
     \/ /\ ~bctxDone
        /\ LET n == PageLen(bk.unlisted) IN
           /\ blog' = Append(blog, [ev |-> "ListPage", n |-> n,
                                    err |-> FALSE])
           /\ bk' = [bk EXCEPT !.unlisted = @ - n,
                               !.more = bk.unlisted - n > 0,
                               !.page = n, !.i = 0, !.attempt = 0,
                               !.deleted = 0]
           /\ bpc' = IF n = 0 THEN "loop" ELSE "batch_wait"
           /\ UNCHANGED bresult
  /\ UNCHANGED <<bucket, bctxDone, svcVars, doVars, clVars, fsVars>>

\* deleteBatchWithRetry: rateLimiter.Wait before each attempt
Bucket_BatchWait ==
  /\ bpc = "batch_wait"
  /\ Bucket_Wait("batch", "batch")
  /\ UNCHANGED <<bucket, bk, bctxDone, svcVars, doVars, clVars, fsVars>>

\* what s3s.client.DeleteObjects can answer for a batch of n keys
BucketBatchOutcomes(n) ==
  IF bctxDone
  THEN {[deleted |-> 0, err |-> TRUE]}
  ELSE {[deleted |-> n, err |-> FALSE],
        [deleted |-> n - 1, err |-> FALSE],
        [deleted |-> 0, err |-> TRUE]}

\* a reported per-key failure counts as a failed attempt
BatchFailed_PerKey(o, n) == o.err \/ o.deleted < n

\* deleteBatch returns an error only for a transport error: keys reported in
\* result.Errors are logged and (len(result.Deleted), nil) is returned
BatchFailed(o, n) == o.err

\* one attempt of deleteBatchWithRetry for the batch objects[i:end]; on
\* success the loop of deleteBucketObjectsOptimized moves to the next batch
\* and, after the last one, deleteAllObjectsInBucket adds the page's count
Bucket_deleteBatch ==
  /\ bpc = "batch"
  /\ LET n == BatchLen(bk.i, bk.page) IN
     \E o \in BucketBatchOutcomes(n) :
       /\ bucket' = bucket - o.deleted
       /\ blog' = Append(blog, [ev |-> "DeleteObjects", i |-> bk.i,
                                n |-> n, deleted |-> o.deleted,
                                err |-> o.err, attempt |-> bk.attempt,
                                unlisted |-> bk.unlisted])
       /\ IF ~BatchFailed(o, n)
          THEN /\ IF bk.i + maxDeleteBatchSize < bk.page
                  THEN /\ bk' = [bk EXCEPT !.i = @ + maxDeleteBatchSize,
                                          !.attempt = 0,
                                          !.deleted = @ + o.deleted]
                       /\ bpc' = "batch_wait"
                  ELSE /\ bk' = [bk EXCEPT !.i = @ + maxDeleteBatchSize,
                                          !.attempt = 0,
                                          !.deleted = 0,
                                          !.totalDeleted =
                                            @ + bk.deleted + o.deleted]
                       /\ bpc' = "loop"
               /\ UNCHANGED bresult
          ELSE IF bk.attempt = maxRetries
               THEN /\ Bucket_ReturnError
                    /\ UNCHANGED bk
               ELSE /\ bpc' = "batch_backoff"
                    /\ UNCHANGED <<bk, bresult>>
  /\ UNCHANGED <<bctxDone, svcVars, doVars, clVars, fsVars>>

Bucket_BatchBackoff ==
  /\ bpc = "batch_backoff"
  /\ Bucket_Select("batch", "batch_wait")
  /\ UNCHANGED <<bucket, bctxDone, svcVars, doVars, clVars, fsVars>>

\* deleteBucketWithRetry: rateLimiter.Wait before each attempt
Bucket_RemoveWait ==
  /\ bpc = "rm_wait"
  /\ Bucket_Wait("remove", "rm")
  /\ UNCHANGED <<bucket, bk, bctxDone, svcVars, doVars, clVars, fsVars>>

\* s3s.client.DeleteBucket: the backend refuses to remove a bucket that
\* still holds objects; any call can fail
Bucket_DeleteBucket ==
  /\ bpc = "rm"
  /\ \E err \in IF bctxDone \/ bucket > 0 THEN {TRUE} ELSE {FALSE, TRUE} :
       /\ blog' = Append(blog, [ev |-> "DeleteBucket", left |-> bucket,
                                err |-> err, attempt |-> bk.attempt])
       /\ IF ~err
          THEN /\ bpc' = "done"
               /\ bresult' = [err |-> FALSE, cause |-> 0]
          ELSE IF bk.attempt = maxRetries
               THEN Bucket_ReturnError
               ELSE /\ bpc' = "rm_backoff"
                    /\ UNCHANGED bresult
  /\ UNCHANGED <<bucket, bk, bctxDone, svcVars, doVars, clVars, fsVars>>

Bucket_RemoveBackoff ==
  /\ bpc = "rm_backoff"
  /\ Bucket_Select("remove", "rm_wait")
  /\ UNCHANGED <<bucket, bctxDone, svcVars, doVars, clVars, fsVars>>

\* the caller cancels ctx while DeleteBucket runs
Bucket_Cancel ==
  /\ bpc \notin {"off", "done"}
  /\ ~bctxDone
  /\ bctxDone' = TRUE
  /\ UNCHANGED <<bpc, bucket, bk, blog, bresult, svcVars, doVars, clVars, fsVars>>

InitBucket ==
  /\ InitSvc
  /\ InitFileServiceIdle
  /\ db = FullDb
  /\ InitDOIdle
  /\ InitClientIdle
  /\ bpc = "loop"
  /\ bucket \in BucketSizes
  /\ bk = [NoBk EXCEPT !.unlisted = bucket]
  /\ blog = <<>>
  /\ bctxDone = FALSE
  /\ bresult = [err |-> FALSE, cause |-> 0]

NextBucket ==
  \/ Bucket_HasMorePages
  \/ Bucket_ListWait
  \/ Bucket_NextPage
  \/ Bucket_BatchWait
  \/ Bucket_deleteBatch
  \/ Bucket_BatchBackoff
  \/ Bucket_RemoveWait
  \/ Bucket_DeleteBucket
  \/ Bucket_RemoveBackoff
  \/ Bucket_Cancel

SpecBucket == InitBucket /\ [][NextBucket]_vars


(***************************************************************************)
(* Properties of DeleteBucket.                                             *)
(***************************************************************************)
BucketReturned == bpc = "done"

IsEv(k, ev) == blog[k].ev = ev

ListFailed ==
  \E k \in 1..Len(blog) : IsEv(k, "ListPage") /\ blog[k].err

BatchExhausted ==
  \E k \in 1..Len(blog) :
    IsEv(k, "DeleteObjects") /\ blog[k].err /\ blog[k].attempt = maxRetries

EmptyingCancelled ==
  \E k \in 1..Len(blog) :
    \/ IsEv(k, "Wait") /\ blog[k].err /\ blog[k].for \in {"list", "batch"}
    \/ IsEv(k, "Cancelled") /\ blog[k].for = "batch"

RemovalAttempted ==
  \E k \in 1..Len(blog) : IsEv(k, "DeleteBucket")

\* C11: when emptying the bucket does not complete (a list page fails, a
\* batch fails on its last attempt, or a wait is cancelled), DeleteBucket
\* has returned an error and no bucket-removal call was ever issued.
C11_NoRemovalAfterFailedEmptying ==
  (ListFailed \/ BatchExhausted \/ EmptyingCancelled) =>
    (BucketReturned /\ bresult.err /\ ~RemovalAttempted)

C11_Witness ==
  /\ BucketReturned
  /\ BatchExhausted
  /\ \E k \in 1..Len(blog) : IsEv(k, "DeleteObjects") /\ ~blog[k].err

\* C12: every bucket-removal call is issued when no object is left in the
\* bucket, objects whose deletion the backend refused key by key included.
C12_NoRemovalWhileObjectsRemain ==
  \A k \in 1..Len(blog) : IsEv(k, "DeleteBucket") => blog[k].left = 0

\* a batch call that succeeded while the backend refused some of its keys
PartialBatch(k) ==
  IsEv(k, "DeleteObjects") /\ ~blog[k].err /\ blog[k].deleted < blog[k].n

RECURSIVE SumLogDeleted(_)
SumLogDeleted(k) ==
  IF k = 0 THEN 0
  ELSE SumLogDeleted(k - 1) +
       (IF IsEv(k, "DeleteObjects") /\ ~blog[k].err
        THEN blog[k].deleted ELSE 0)

\* C13: a batch call that succeeds while the backend reports failed keys is
\* never issued again, deleteBatchWithRetry returns without error (no
\* backoff, no error return follows it), and the counts add what the backend
\* listed as deleted, so the failed keys are not counted.
C13_PerKeyFailureNotRetried ==
  /\ \A k \in 1..Len(blog) :
       PartialBatch(k) =>
         /\ \A m \in (k + 1)..Len(blog) :
              IsEv(m, "DeleteObjects") =>
                <<blog[m].unlisted, blog[m].i>> #
                  <<blog[k].unlisted, blog[k].i>>
         /\ k = Len(blog) =>
              bpc \in {"loop", "list_wait", "batch_wait", "rm_wait"}
  /\ bpc \in {"loop", "list_wait", "list", "rm_wait", "rm", "rm_backoff"} =>
       bk.totalDeleted = SumLogDeleted(Len(blog))
  /\ bpc \in {"batch_wait", "batch", "batch_backoff"} =>
       bk.totalDeleted + bk.deleted = SumLogDeleted(Len(blog))

C13_Witness ==
  /\ BucketReturned
  /\ \E k \in 1..Len(blog) :
       /\ PartialBatch(k)
       /\ \E m \in (k + 1)..Len(blog) :
            IsEv(m, "DeleteObjects") /\ ~blog[m].err
  /\ bk.totalDeleted = SumLogDeleted(Len(blog))
  /\ bk.totalDeleted > 0

RECURSIVE Pow2(_)
Pow2(n) == IF n = 0 THEN 1 ELSE 2 * Pow2(n - 1)

\* C29: the delay slept before retry n (after failed attempt n - 1, counted
\* from 0) is min(100 ms * 2^(n-1), 5 s).
C29_ExponentialBackoff ==
  \A k \in 2..Len(blog) :
     IsEv(k, "Sleep") =>
        blog[k].delay =
          (IF baseDelay * Pow2(blog[k - 1].attempt) > maxDelay
           THEN maxDelay
           ELSE baseDelay * Pow2(blog[k - 1].attempt))

\* the backend calls of the two retry loops
IsAttempt(k) == IsEv(k, "DeleteObjects") \/ IsEv(k, "DeleteBucket")

\* events k and m are attempts of the same batch, or both of the removal
SameTarget(k, m) ==
  /\ blog[k].ev = blog[m].ev
  /\ IsEv(k, "DeleteObjects") =>
        <<blog[k].unlisted, blog[k].i>> = <<blog[m].unlisted, blog[m].i>>

BucketProgram ==
  \/ Bucket_HasMorePages
  \/ Bucket_ListWait
  \/ Bucket_NextPage
  \/ Bucket_BatchWait
  \/ Bucket_deleteBatch
  \/ Bucket_BatchBackoff
  \/ Bucket_RemoveWait
  \/ Bucket_DeleteBucket
  \/ Bucket_RemoveBackoff

\* the goroutine that runs DeleteBucket keeps being scheduled
SpecBucketFair == SpecBucket /\ WF_vars(BucketProgram)

AttemptsBounded ==
  \A k \in 1..Len(blog) :
     IsAttempt(k) =>
        /\ blog[k].attempt \in 0..maxRetries
        /\ Cardinality({m \in 1..Len(blog) : IsAttempt(m) /\ SameTarget(k, m)})
             <= maxRetries + 1
        \* attempt a > 0 follows the failed attempt a - 1 of the same target
        /\ blog[k].attempt > 0 =>
              /\ k > 3
              /\ IsAttempt(k - 3) /\ SameTarget(k, k - 3)
              /\ blog[k - 3].err
              /\ blog[k - 3].attempt = blog[k].attempt - 1
        \* the first success is the last attempt of its target
        /\ ~blog[k].err =>
              \A m \in (k + 1)..Len(blog) : ~(IsAttempt(m) /\ SameTarget(k, m))
        \* the last attempt failing ends DeleteBucket with that error
        /\ (blog[k].err /\ blog[k].attempt = maxRetries) =>
              /\ k = Len(blog)
              /\ BucketReturned /\ bresult.err /\ bresult.cause = k
              /\ bk.totalDeleted + bk.deleted = SumLogDeleted(k)

\* C30: each retry loop makes at most maxRetries + 1 attempts, stops at the
\* first one that succeeds, returns the last attempt's error (nothing
\* counted for the batch) when all of them failed, and DeleteBucket always
\* returns.
C30_BoundedRetries == []AttemptsBounded /\ <>BucketReturned

C30_Witness ==
  /\ BucketReturned /\ bresult.err
  /\ IsEv(Len(blog), "DeleteBucket") /\ blog[Len(blog)].attempt = maxRetries
  /\ \E k \in 1..Len(blog) :
        IsEv(k, "DeleteObjects") /\ ~blog[k].err /\ blog[k].attempt = 2

\* program points inside rateLimiter.Wait and inside the select of a retry
WaitingForLimiter == bpc \in {"list_wait", "batch_wait", "rm_wait"}
SleepingBeforeRetry == bpc \in {"batch_backoff", "rm_backoff"}

\* a step that calls the backend
BackendAttempt ==
  /\ Len(blog') = Len(blog) + 1
  /\ blog'[Len(blog')].ev \in {"ListPage", "DeleteObjects", "DeleteBucket"}

\* with the context cancelled, a wait or a sleep ends in the return of an
\* error, or the sleep is followed by the wait of the next attempt
CancelledWaitStep ==
  (bctxDone /\ (WaitingForLimiter \/ SleepingBeforeRetry)) =>
     /\ ~BackendAttempt
     /\ \/ bpc' = "done" /\ bresult'.err
        \/ SleepingBeforeRetry /\ bpc' \in {"batch_wait", "rm_wait"}

\* C31: when the caller's context is cancelled while DeleteBucket waits for
\* the rate limiter or sleeps between retries, no further backend call is
\* made and DeleteBucket returns an error.
C31_CancelledWhileWaiting ==
  /\ [][CancelledWaitStep]_vars
  /\ (bctxDone /\ (WaitingForLimiter \/ SleepingBeforeRetry))
       ~> (bpc = "done" /\ bresult.err)

C31_Witness ==
  /\ bpc = "done" /\ bresult.err
  /\ Len(blog) >= 3
  /\ IsEv(Len(blog), "Wait") /\ blog[Len(blog)].err
  /\ IsEv(Len(blog) - 1, "Sleep")
  /\ IsEv(Len(blog) - 2, "DeleteObjects") /\ blog[Len(blog) - 2].attempt = 1


(***************************************************************************)
(* FileServiceImpl: GetContractorFiles, GetProjectFiles, GetSiteFiles.     *)
(*                                                                         *)
(* A string is a sequence of symbols; a symbol is "/" or a piece of text   *)
(* that holds no "/" (a code, a name segment, a literal of a format        *)
(* string), so that strings.Split and fmt.Sprintf are computed as the code *)
(* computes them and two keys are equal exactly when their sequences are.  *)
(*                                                                         *)
(* The hierarchy has a fixed containment (sites of projects as above,      *)
(* document groups of sites, documents of groups, files of documents); the *)
(* category, progress and processed name of the groups and the shape of    *)
(* the file names are drawn by the initial state, as is the set of reads   *)
(* that fail.  The order in which a repository returns rows is not fixed   *)
(* by its query: each call draws it.                                       *)
(***************************************************************************)
NumGroups == 4
NumDocuments == 5
NumFiles == 6
MaxReadFailures == 1
MaxResolverCalls == 2

DocumentGroups == 1..NumGroups
Documents == 1..NumDocuments
Files == 1..NumFiles
SiteOf(g) == ((g - 1) % NumSites) + 1
GroupOf(d) == ((d - 1) % NumGroups) + 1
DocumentOf(f) == ((f - 1) % NumDocuments) + 1

SplitCategories ==
  {"Boundary", "LineRoute", "SBEST", "SBP", "SoilSample", "SSS"}
RasterCategories == {"RasterD", "RasterO", "Image"}
Categories == SplitCategories \cup RasterCategories \cup {"Ortho", ""}
Progresses == {0, 11, 40, 41}
NameShapes == {"empty", "plain", "two", "three", "leading", "trailing"}

\* entity.File.Name of file f in the drawn shape
FileName(f, shape) ==
  LET a == "f" \o ToString(f)
  IN CASE shape = "empty" -> <<>>
       [] shape = "plain" -> <<a>>
       [] shape = "two" -> <<"dir", "/", a>>
       [] shape = "three" -> <<"dir", "/", "sub", "/", a>>
       [] shape = "leading" -> <<"/", a>>
       [] OTHER -> <<a, "/">>

ProjectRow(p) == [Id |-> p, Code |-> <<"P" \o ToString(p)>>]
SiteRow(s) ==
  [Id |-> s, ProjectId |-> ProjectOf(s), Code |-> <<"S" \o ToString(s)>>]
DocumentGroupRow(g) ==
  [Id |-> g, SiteId |-> SiteOf(g), Category |-> hier.category,
   Progress |-> hier.progress,
   ProcessedName |-> IF hier.processed THEN <<"g" \o ToString(g)>> ELSE <<>>]
DocumentRow(d) == [Id |-> d, GroupId |-> GroupOf(d)]
FileRow(f) ==
  [Id |-> f, DocumentId |-> DocumentOf(f), Name |-> FileName(f, hier.shape)]

\* the reads of the repositories, by method and argument
BranchReads ==
  ({"Site.GetByProjectID"} \X Projects)
    \cup ({"DocumentGroup.GetBySiteID"} \X Sites)
    \cup ({"Document.GetByGroupID"} \X DocumentGroups)
    \cup ({"File.GetByDocumentID"} \X Documents)
Reads ==
  BranchReads \cup ({"Project.GetByContractorID"} \X Contractors)
    \cup ({"Project.GetByID"} \X Projects) \cup ({"Site.GetByID"} \X Sites)

Hierarchies ==
  {[category |-> c, progress |-> g, processed |-> n, shape |-> h,
    failing |-> {}] :
     c \in Categories, g \in Progresses, n \in BOOLEAN, h \in NameShapes}
  \cup
  {[category |-> "Image", progress |-> 40, processed |-> TRUE,
    shape |-> "two", failing |-> F] :
     F \in {X \in SUBSET Reads : X # {} /\ Cardinality(X) <= MaxReadFailures}}

Scopes ==
  {[Type |-> CleansingTypeContractor, ID |-> c] : c \in Contractors}
  \cup {[Type |-> CleansingTypeProject, ID |-> p] : p \in Projects}
  \cup {[Type |-> CleansingTypeSite, ID |-> s] : s \in Sites}

\* the rows with the given ids, in the order the query returned them
Rows(S, desc) ==
  LET a == SetToSeq(S)
  IN IF desc THEN [i \in 1..Len(a) |-> a[Len(a) + 1 - i]] ELSE a

Fails(method, id) == <<method, id>> \in hier.failing

\* strings.Split(s, sep)
RECURSIVE Split(_, _)
Split(s, sep) ==
  IF \A i \in 1..Len(s) : s[i] # sep THEN <<s>>
  ELSE LET i == CHOOSE k \in 1..Len(s) :
                  s[k] = sep /\ \A j \in 1..(k - 1) : s[j] # sep
       IN <<SubSeq(s, 1, i - 1)>> \o Split(SubSeq(s, i + 1, Len(s)), sep)

\* A plausible slip: only a name of exactly two segments is re-written.
FS_buildS3ObjectsFromFile_ExactlyTwo(project, site, docGroup, file) ==
  LET basePath == project.Code \o <<"/">> \o site.Code
                    \o <<"/", "00_Upload", "/">>
      fileNameSplit == Split(file.Name, "/")
      fileName == IF docGroup.Category \in SplitCategories
                       /\ Len(fileNameSplit) = 2
                  THEN fileNameSplit[1] \o <<"/", "Raw", "/">>
                         \o fileNameSplit[2]
                  ELSE file.Name
  IN <<[Key |-> basePath \o fileName]>>

FS_buildS3ObjectsFromFile(project, site, docGroup, file) ==
  LET needSplit == \/ docGroup.Category = "Boundary"
                   \/ docGroup.Category = "LineRoute"
                   \/ docGroup.Category = "SBEST"
                   \/ docGroup.Category = "SBP"
                   \/ docGroup.Category = "SoilSample"
                   \/ docGroup.Category = "SSS"
      basePath == project.Code \o <<"/">> \o site.Code
                    \o <<"/", "00_Upload", "/">>
      fileNameSplit == Split(file.Name, "/")
      fileName == IF needSplit /\ Len(fileNameSplit) >= 2
                  THEN fileNameSplit[1] \o <<"/", "Raw", "/">>
                         \o fileNameSplit[2]
                  ELSE file.Name
  IN <<[Key |-> basePath \o fileName]>>

FS_buildProcessedS3Objects(project, site, docGroup) ==
  LET basePath == project.Code \o <<"/">> \o site.Code
                    \o <<"/", "01_Processed", "/">>
      mainKey == basePath \o docGroup.ProcessedName \o <<".geojson">>
      fileTypes == <<"_B01.tif", "_B02.tif", "_B03.tif">>
  IN <<[Key |-> mainKey]>>
       \o (IF \/ docGroup.Category = "RasterD"
              \/ docGroup.Category = "RasterO"
              \/ docGroup.Category = "Image"
           THEN [i \in 1..Len(fileTypes) |->
                   [Key |-> basePath \o docGroup.ProcessedName
                              \o <<fileTypes[i]>>]]
           ELSE <<>>)

\* A plausible slip: only the progress value 40 counts.
hasProcessedFiles_Only40(docGroup) ==
  docGroup.Progress = 40 /\ docGroup.ProcessedName # <<>>

\* the test that guards buildProcessedS3Objects
hasProcessedFiles(docGroup) ==
  (docGroup.Progress = 40 \/ docGroup.Progress = 11)
    /\ docGroup.ProcessedName # <<>>

\* A walk returns the objects appended to allObjects and the reads it made.
NoObjects(reads) == [objects |-> <<>>, reads |-> reads]

\* A plausible slip: `allObjects = s3Objects` where the code appends.
AppendAll_Overwrite(rs) ==
  [objects |-> IF rs = <<>> THEN <<>> ELSE rs[Len(rs)].objects,
   reads |-> UNION {rs[i].reads : i \in 1..Len(rs)}]

\* allObjects = append(allObjects, ...) over the iterations of a loop
RECURSIVE AppendAll(_)
AppendAll(rs) ==
  IF rs = <<>> THEN NoObjects({})
  ELSE LET rest == AppendAll(Tail(rs))
       IN [objects |-> Head(rs).objects \o rest.objects,
           reads |-> Head(rs).reads \cup rest.reads]

WithReads(r, reads) == [r EXCEPT !.reads = @ \cup reads]

\* body of `for _, document := range documents`
RangeDocument(project, site, docGroup, document, desc) ==
  LET read == <<"File.GetByDocumentID", document.Id>>
      files == Rows({f \in Files : DocumentOf(f) = document.Id}, desc)
  IN IF Fails(read[1], read[2]) THEN NoObjects({read})
     ELSE WithReads(
            AppendAll([i \in 1..Len(files) |->
               [objects |-> FS_buildS3ObjectsFromFile(
                              project, site, docGroup, FileRow(files[i])),
                reads |-> {}]]),
            {read})

\* body of `for _, docGroup := range documentGroups`
RangeDocumentGroup(project, site, docGroup, desc) ==
  LET read == <<"Document.GetByGroupID", docGroup.Id>>
      documents == Rows({d \in Documents : GroupOf(d) = docGroup.Id}, desc)
      walked == AppendAll([i \in 1..Len(documents) |->
                  RangeDocument(project, site, docGroup,
                                DocumentRow(documents[i]), desc)])
  IN IF Fails(read[1], read[2]) THEN NoObjects({read})
     ELSE [objects |->
             walked.objects
               \o (IF hasProcessedFiles(docGroup)
                   THEN FS_buildProcessedS3Objects(project, site, docGroup)
                   ELSE <<>>),
           reads |-> walked.reads \cup {read}]

\* the loop over the document groups of a site
RangeDocumentGroups(project, site, desc) ==
  LET documentGroups == Rows({g \in DocumentGroups : SiteOf(g) = site.Id},
                             desc)
  IN AppendAll([i \in 1..Len(documentGroups) |->
        RangeDocumentGroup(project, site,
                           DocumentGroupRow(documentGroups[i]), desc)])

\* body of `for _, site := range sites`
RangeSite(project, site, desc) ==
  LET read == <<"DocumentGroup.GetBySiteID", site.Id>>
  IN IF Fails(read[1], read[2]) THEN NoObjects({read})
     ELSE WithReads(RangeDocumentGroups(project, site, desc), {read})

\* the loop over the sites of a project
RangeSites(project, desc) ==
  LET sites == Rows({s \in Sites : ProjectOf(s) = project.Id}, desc)
  IN AppendAll([i \in 1..Len(sites) |->
        RangeSite(project, SiteRow(sites[i]), desc)])

\* body of `for _, project := range projects`
RangeProject(project, desc) ==
  LET read == <<"Site.GetByProjectID", project.Id>>
  IN IF Fails(read[1], read[2]) THEN NoObjects({read})
     ELSE WithReads(RangeSites(project, desc), {read})

Failed(reads) == [objects |-> <<>>, reads |-> reads, err |-> TRUE]
Resolved(r, reads) ==
  [objects |-> r.objects, reads |-> r.reads \cup reads, err |-> FALSE]

FS_GetContractorFiles(contractorID, desc) ==
  LET read == <<"Project.GetByContractorID", contractorID>>
      projects == Rows(Projects, desc)
  IN IF Fails(read[1], read[2]) THEN Failed({read})
     ELSE Resolved(AppendAll([i \in 1..Len(projects) |->
                      RangeProject(ProjectRow(projects[i]), desc)]),
                   {read})

FS_GetProjectFiles(projectID, desc) ==
  LET r1 == <<"Project.GetByID", projectID>>
      r2 == <<"Site.GetByProjectID", projectID>>
  IN IF Fails(r1[1], r1[2]) THEN Failed({r1})
     ELSE IF Fails(r2[1], r2[2]) THEN Failed({r1, r2})
     ELSE Resolved(RangeSites(ProjectRow(projectID), desc), {r1, r2})

FS_GetSiteFiles(siteID, desc) ==
  LET site == SiteRow(siteID)
      r1 == <<"Site.GetByID", siteID>>
      r2 == <<"Project.GetByID", site.ProjectId>>
      r3 == <<"DocumentGroup.GetBySiteID", siteID>>
  IN IF Fails(r1[1], r1[2]) THEN Failed({r1})
     ELSE IF Fails(r2[1], r2[2]) THEN Failed({r1, r2})
     ELSE IF Fails(r3[1], r3[2]) THEN Failed({r1, r2, r3})
     ELSE Resolved(RangeDocumentGroups(ProjectRow(site.ProjectId), site,
                                       desc),
                   {r1, r2, r3})

\* One call of an entry point; nothing but rcalls changes.
Returns(r) ==
  /\ Len(rcalls) < MaxResolverCalls
  /\ rcalls' = Append(rcalls, r)
  /\ UNCHANGED <<hier, rscope, svcVars, doVars, clVars, bkVars>>

Call_GetContractorFiles ==
  /\ rscope.Type = CleansingTypeContractor
  /\ \E desc \in BOOLEAN : Returns(FS_GetContractorFiles(rscope.ID, desc))

Call_GetProjectFiles ==
  /\ rscope.Type = CleansingTypeProject
  /\ \E desc \in BOOLEAN : Returns(FS_GetProjectFiles(rscope.ID, desc))

Call_GetSiteFiles ==
  /\ rscope.Type = CleansingTypeSite
  /\ \E desc \in BOOLEAN : Returns(FS_GetSiteFiles(rscope.ID, desc))

InitResolver ==
  /\ InitSvc
  /\ db = FullDb
  /\ InitDOIdle
  /\ InitClientIdle
  /\ InitBucketIdle
  /\ hier \in Hierarchies
  /\ rscope \in Scopes
  /\ rcalls = <<>>

NextResolver ==
  \/ Call_GetContractorFiles
  \/ Call_GetProjectFiles
  \/ Call_GetSiteFiles

SpecResolver == InitResolver /\ [][NextResolver]_vars


(***************************************************************************)
(* Properties of the file service.                                         *)
(***************************************************************************)
Keys(objs) == {objs[i].Key : i \in 1..Len(objs)}
IsUploadObject(o) == o.Key[5] = "00_Upload"
IsProcessedObject(o) == o.Key[5] = "01_Processed"

\* the site lies in the scope the entry point was called for
InScope(s) ==
  CASE rscope.Type = CleansingTypeSite -> s = rscope.ID
    [] rscope.Type = CleansingTypeProject -> ProjectOf(s) = rscope.ID
    [] OTHER -> TRUE

ScopeFiles == {f \in Files : InScope(SiteOf(GroupOf(DocumentOf(f))))}

\* C25: in each entry point a failed read of one branch (the sites of a
\* project, the document groups of a site, the documents of a group, the
\* files of a document) does not abort the walk: no error is returned.
C25_FailedBranchNeverAborts ==
  \A i \in 1..Len(rcalls) :
     (/\ rcalls[i].reads \cap hier.failing # {}
      /\ rcalls[i].reads \cap hier.failing \subseteq BranchReads)
     => ~rcalls[i].err

\* C26: with reads that do not fail, two calls of the same entry point for
\* the same scope return the same set of keys, whatever order the rows came
\* back in; the calls made are reads, and no row, object or attribute of
\* the hierarchy changes.
C26_SameKeySetTwice ==
  /\ [](\A i, j \in 1..Len(rcalls) :
          /\ rcalls[i].reads \subseteq Reads
          /\ hier.failing = {} =>
               /\ ~rcalls[i].err
               /\ Keys(rcalls[i].objects) = Keys(rcalls[j].objects))
  /\ [][db' = db /\ hier' = hier /\ bucket' = bucket]_vars

C26_Witness ==
  /\ Len(rcalls) = 2 /\ hier.failing = {}
  /\ rcalls[1].objects # rcalls[2].objects
  /\ Cardinality(Keys(rcalls[1].objects)) > 1

\* the key of file f, from the first and the second "/" of its name
ExpectedFileKey(f) ==
  LET name == FileName(f, hier.shape)
      s == SiteOf(GroupOf(DocumentOf(f)))
      slashes == {i \in 1..Len(name) : name[i] = "/"}
      first == CHOOSE i \in slashes : \A j \in slashes : i <= j
      later == slashes \ {first}
      second == IF later = {} THEN Len(name) + 1
                ELSE CHOOSE i \in later : \A j \in later : i <= j
      derived == IF hier.category \in SplitCategories /\ slashes # {}
                 THEN SubSeq(name, 1, first - 1) \o <<"/", "Raw", "/">>
                        \o SubSeq(name, first + 1, second - 1)
                 ELSE name
  IN <<"P" \o ToString(ProjectOf(s)), "/", "S" \o ToString(s), "/",
       "00_Upload", "/">> \o derived

\* C27: every file yields exactly one key "{project.code}/{site.code}/
\* 00_Upload/" + name, where name is "{segment0}/Raw/{segment1}" for a split
\* category and a stored name of two or more "/"-separated segments, and
\* the stored name otherwise; the derivation does not fail.
C27_OneKeyPerFile ==
  \A i \in 1..Len(rcalls) :
     hier.failing = {} =>
       LET upload == SelectSeq(rcalls[i].objects, IsUploadObject)
       IN /\ ~rcalls[i].err
          /\ Len(upload) = Cardinality(ScopeFiles)
          /\ Keys(upload) = {ExpectedFileKey(f) : f \in ScopeFiles}

C27_Witness ==
  /\ Len(rcalls) > 0 /\ hier.failing = {}
  /\ hier.category = "SBP" /\ hier.shape = "three"
  /\ rscope.Type = CleansingTypeContractor

\* the groups whose loop body ran to its end: in scope, and every read on
\* the way down to their documents succeeded
VisitedGroups ==
  {g \in DocumentGroups :
     /\ InScope(SiteOf(g))
     /\ <<"Document.GetByGroupID", g>> \notin hier.failing
     /\ <<"DocumentGroup.GetBySiteID", SiteOf(g)>> \notin hier.failing
     /\ rscope.Type # CleansingTypeSite =>
          <<"Site.GetByProjectID", ProjectOf(SiteOf(g))>> \notin hier.failing}

ExpectedProcessedKeys(g) ==
  LET s == SiteOf(g)
      base == <<"P" \o ToString(ProjectOf(s)), "/", "S" \o ToString(s), "/",
                "01_Processed", "/", "g" \o ToString(g)>>
  IN IF hier.progress \in {40, 11} /\ hier.processed
     THEN {base \o <<".geojson">>}
            \cup (IF hier.category \in RasterCategories
                  THEN {base \o <<t>> :
                          t \in {"_B01.tif", "_B02.tif", "_B03.tif"}}
                  ELSE {})
     ELSE {}

====
